---- MODULE Spec2Model ----
(***************************************************************************)
(* A model of the watson trading bot: the strategy run loop                *)
(* (core/strategy.py) over the portfolio manager (core/portfolio.py), the  *)
(* trade datastore (core/database.py), the Alpaca broker wrapper           *)
(* (broker/alpaca.py) and the scheduler (core/scheduler.py); and the       *)
(* screener's filters (filters/indicators.py, filters/earnings.py,         *)
(* data/earnings_calendar.py).                                             *)
(*                                                                         *)
(* The broker, the datastore engine, the calendar API and the scheduling   *)
(* library are the environment: every answer they can give is a            *)
(* nondeterministic choice.  Quantities, prices and timestamps of orders   *)
(* are not modelled; an order is identified by its id.                     *)
(***************************************************************************)
EXTENDS Integers, Sequences, FiniteSets, TLC

(***************************************************************************)
(* Bounds of the model.                                                    *)
(***************************************************************************)
\* Strategy.loop cycles started in one behaviour.
MaxCycles == 2
\* Status queries of one wait_for_order_status call are counted modulo
\* MaxPolls + 1.
MaxPolls == 1
\* Triggers handed to the Scheduler (one job per trigger).
NumTriggers == 2

\* Indicator values and thresholds range over -MaxValue..MaxValue.
MaxValue == 1
\* Entries the calendar API returns for one request.
MaxCalendar == 2
\* Clock ticks per day, and the last tick of the clock.
TicksPerDay == 2
MaxNow == 2

\* Filters registered with the Screener.
MaxFilters == 2

\* Binary digits of a float's significand (53 in the interpreter).
Precision == 3
\* The account's equity and the last close price range over 0..MaxEquity and,
\* in halves, over -1..MaxPrice / 2.
MaxEquity == 7
MaxPrice == 7

\* Rows the callers of the trade API add to the datastore.
MaxRows == 1
NumStrategies == 4
MaxClock == 2
MaxFetches == 3

\* mm.max_positions, the configured cap (MoneyManagement.__init__).
max_positions == 1
\* Earnings(lookahead=...), in days.
lookahead == 1

\* The screener universe, in its table order.
Universe == <<"AAPL", "MSFT">>
Symbols == {Universe[i] : i \in 1..Len(Universe)}

Jobs == 1..NumTriggers

\* Python's None for an id.
None == 0

VARIABLES
    \* ---- datastore and broker
    trades,          \* the trades table: trade id (1..) -> Trade row
    orders,          \* the broker's orders: order id (1..) -> order
    \* ---- the event loop
    cur,             \* the job whose cycle holds the event loop, or None
    cycles,          \* cycles started so far
    \* ---- one Strategy.loop activation per scheduler job
    pc,              \* where the cycle stands
    open_positions,  \* the rows pm.update() returned
    exit_signals,    \* what check_exit_conditions returned
    buy_signals,     \* what check_entry_conditions returned
    idx,             \* position of the signal loop (iterrows)
    order,           \* the order a wait_for_order_status call polls
    polls,           \* status queries of the current wait, modulo MaxPolls + 1
    trade_id,        \* open_trades' trade_id
    entry_checked,   \* check_entry_conditions was invoked in this cycle
    submitted,       \* orders submitted in this cycle: to exit, to enter
    failure,         \* the broker call that failed in this cycle
    outcome          \* how the cycle ended

VARIABLES
    \* ---- the filter objects (filters/indicators.py, filters/earnings.py)
    kind,            \* the class of the filter instance the run exercises
    initialized,     \* self.initialized of each object
    universe,        \* self.universe of each object (<<>>: None)
    market_data,     \* TechnicalIndicator.market_data: symbol -> bound series
    comparison_func, \* IndicatorFilter.comparison_func, by its __name__
    value,           \* IndicatorFilter.value, the threshold
    dates,           \* Earnings.dates: symbol -> list of days
    period,          \* EarningsCalendar.period, a clock time
    calendar,        \* the calendar API's last answer: entries (symbol, day)
    now,             \* the clock, in ticks
    completed,       \* the objects whose initialize() has returned
    result           \* what the last apply() of each object gave

VARIABLES
    \* ---- the Screener (core/screener.py)
    scr_initialized, \* Screener.initialized
    scr_symbols,     \* Screener.symbols: the fetched universe (<<>>: None)
    filters,         \* Screener.filters: the registered filter objects
    ready,           \* the filter objects whose initialize() has returned
    candidates,      \* Screener.candidates
    run_pos,         \* the filter run() applies next (0: no run() under way)
    ran,             \* a run() has completed, and nothing but run() followed
    last_results,    \* what the filters' apply() returned, each at its last call
    repeated,        \* the last run() got the results of the one before
    before,          \* the table at the start of such a run()
    run_error,       \* the filter whose apply() ended the last run() (0: none)
    filtered         \* what the last apply_filters() gave

VARIABLES
    \* ---- MoneyManagement (core/money_management.py)
    pct_per_position,     \* MoneyManagement.pct_per_position
    pct_net_asset_value,  \* MoneyManagement.pct_net_asset_value
    net_asset_value,      \* MoneyManagement.net_asset_value (<<>>: None)
    quote,                \* the close of the bar the last get_entry_qty fetched
    qty                   \* what the last get_entry_qty gave

VARIABLES
    \* ---- the callers of the trade API (core/portfolio.py, core/database.py)
    added,           \* what the last add_trade returned
    exited,          \* the last update_trade_exit on it: arguments and result
    got,             \* what the last get_trade_by_id on it returned
    updated          \* the last update_trade: arguments, result, table before

VARIABLES
    \* ---- a Database object and its callers (core/database.py)
    SessionLocal,    \* Database.SessionLocal is set (FALSE: None)
    connected,       \* a connect() has returned True
    db_call          \* the last operation: name, trade id, what it returned

VARIABLES
    \* ---- the program (main.py)
    strategy_classes,  \* per strategy found: whether it has a scheduler
    strategy,          \* the strategy main() is at (0: before the first)
    main_pc,           \* where main() is: initialize, run, sleep, done, raised
    progress,          \* per strategy: found, initialized, finished, scheduled
    fired,             \* per strategy: the loops its scheduler has run
    slept              \* the sleeps of run()'s `while True`, modulo 2

VARIABLES
    \* ---- MarketDataManager (data/market_data.py)
    provider,        \* MarketDataManager.provider
    data_cache,      \* MarketDataManager.data_cache
    cache_expiry,    \* MarketDataManager.cache_expiry: the keys and their expiry
    clock,           \* datetime.now(), in units of cache_duration
    fetches,         \* the histories the provider has been asked for
    history          \* what the last get_multiple_symbols_data returned

filtVars == <<kind, initialized, universe, market_data, comparison_func, value,
              dates, period, calendar, now, completed, result>>

dbVars == <<trades, orders>>
loopVars == <<cur, cycles>>
cycleVars == <<pc, open_positions, exit_signals, buy_signals, idx, order, polls,
               trade_id, entry_checked, submitted, failure, outcome>>
stratVars == <<dbVars, loopVars, cycleVars>>
scrVars == <<scr_initialized, scr_symbols, filters, ready, candidates, run_pos, ran,
             last_results, repeated, before, run_error, filtered>>

mmVars == <<pct_per_position, pct_net_asset_value, net_asset_value, quote, qty>>
apiVars == <<added, exited, got, updated>>
conVars == <<SessionLocal, connected, db_call>>
mainVars == <<strategy_classes, strategy, main_pc, progress, fired, slept>>
cacheVars == <<provider, data_cache, cache_expiry, clock, fetches, history>>
restVars == <<conVars, mainVars, cacheVars>>

\* What the steps of one part of the program leave alone: the other parts.
notStratVars == <<filtVars, scrVars, mmVars, apiVars, restVars>>
notFiltVars == <<stratVars, scrVars, mmVars, apiVars, restVars>>
notScrVars == <<stratVars, filtVars, mmVars, apiVars, restVars>>
notMmVars == <<stratVars, filtVars, scrVars, apiVars, restVars>>
notApiVars == <<orders, loopVars, cycleVars, filtVars, scrVars, mmVars, restVars>>
notConVars == <<orders, loopVars, cycleVars, filtVars, scrVars, mmVars, apiVars,
                mainVars, cacheVars>>
notMainVars == <<stratVars, filtVars, scrVars, mmVars, apiVars, conVars, cacheVars>>
notCacheVars == <<stratVars, filtVars, scrVars, mmVars, apiVars, conVars, mainVars>>

(***************************************************************************)
(* Sequences.                                                              *)
(***************************************************************************)
RECURSIVE SubSeqs(_)
\* Every subsequence of s, order kept: the row filters of a table.
SubSeqs(s) ==
    IF s = <<>> THEN {<<>>}
    ELSE LET rest == SubSeqs(Tail(s))
         IN  rest \cup {<<Head(s)>> \o r : r \in rest}

Range(s) == {s[i] : i \in DOMAIN s}

(***************************************************************************)
(* core/database.py                                                        *)
(***************************************************************************)
\* A row as Database.add_trade inserts it.
NewTrade(symbol, entry_order_id, status) ==
    [symbol |-> symbol, status |-> status, entry_order_id |-> entry_order_id,
     take_profit_order_id |-> None, exit_at |-> None, exit_qty |-> None,
     exit_price |-> None, exit_reason |-> "", exit_order_id |-> None]

\* Database.update_trade's allow-list.
allowed_fields ==
    {"status", "take_profit", "stop_loss", "take_profit_order_id",
     "stop_loss_order_id", "exit_at", "exit_qty", "exit_price",
     "exit_reason", "exit_order_id"}

\* A check that drops the fields outside the list instead of rejecting the
\* dictionary.
UpdateTradeOkSomeAllowed(ts, id, updates) ==
    /\ DOMAIN updates \cap allowed_fields # {}
    /\ id \in DOMAIN ts

\* The ids of the rows of the table: a deleted row leaves its place in the
\* sequence to a mark, so that the place of a row stays its id.
Live(ts) == {i \in DOMAIN ts : ts[i].status # "deleted"}

\* Database.update_trade succeeds: every field allowed, the row exists.
UpdateTradeOk(ts, id, updates) ==
    /\ DOMAIN updates \subseteq allowed_fields
    /\ id \in Live(ts)

\* Database.update_trade: the table after the call.
update_trade(ts, id, updates) ==
    IF UpdateTradeOk(ts, id, updates)
    THEN [ts EXCEPT ![id] =
            [f \in DOMAIN ts[id] |->
                IF f \in DOMAIN updates THEN updates[f] ELSE ts[id][f]]]
    ELSE ts

\* A dictionary with the exit fields and no status.
exit_updates_without_status(exit_at, exit_qty, exit_price, exit_reason, exit_order_id) ==
    [exit_at |-> exit_at, exit_qty |-> exit_qty, exit_price |-> exit_price,
     exit_reason |-> exit_reason, exit_order_id |-> exit_order_id]

\* The updates dictionary of Database.update_trade_exit, status defaulted.
exit_updates(exit_at, exit_qty, exit_price, exit_reason, exit_order_id) ==
    [exit_at |-> exit_at, exit_qty |-> exit_qty, exit_price |-> exit_price,
     exit_reason |-> exit_reason, exit_order_id |-> exit_order_id,
     status |-> "closed"]

\* Database.update_trade_exit.
update_trade_exit(ts, id, exit_at, exit_qty, exit_price, exit_reason, exit_order_id) ==
    update_trade(ts, id, exit_updates(exit_at, exit_qty, exit_price,
                                      exit_reason, exit_order_id))

\* The model keeps no times, quantities or prices of orders: the id of a
\* filled order stands for its filled_at, filled_qty and filled_avg_price.
\* The dictionary PortfolioManager.update writes for a row whose take-profit
\* order `o` is filled (lines 55-62).
take_profit_updates(o) ==
    [status |-> "closed", exit_at |-> o, exit_qty |-> o, exit_price |-> o,
     exit_reason |-> "TakeProfit", exit_order_id |-> o]

RECURSIVE OpenRows(_, _)
\* Database.get_open_trades: the rows with status open, by id.
OpenRows(ts, from) ==
    IF from > Len(ts) THEN <<>>
    ELSE (IF ts[from].status = "open"
          THEN <<[id |-> from,
                  take_profit_order_id |-> ts[from].take_profit_order_id]>>
          ELSE <<>>) \o OpenRows(ts, from + 1)

get_open_trades(ts) == OpenRows(ts, 1)

(***************************************************************************)
(* broker/alpaca.py                                                        *)
(***************************************************************************)
\* The statuses an order may show at the next query, given the one it has.
\* Filled and canceled are final.
Progress(o) ==
    CASE o.status = "pending" /\ o.kind = "limit" -> {"pending", "new", "canceled"}
      [] o.status = "pending" -> {"pending", "filled", "canceled"}
      [] o.status = "new" -> {"new", "filled"}
      [] OTHER -> {o.status}

\* The status submit_order / close_position may return an order with.
InitialStatus(order_kind) ==
    IF order_kind = "limit" THEN {"pending", "new"} ELSE {"pending", "filled"}

\* The queries a wait has made.  The loop of wait_for_order_status keeps no
\* count and has no other exit than the target status, so the count is kept
\* modulo MaxPolls + 1: a wait that goes on is a cycle of the state graph.
Queries(n) == (n + 1) % (MaxPolls + 1)

\* Alpaca.wait_for_order_status, `while status != order.status`: whether the
\* loop body (sleep, query) is entered for an order just returned.
WaitEntered(status, target) == status # target

\* An Alpaca whose methods let the failure of a trade_client call through as
\* it is.
AlpacaRaisesUnwrapped(call) == "Exception"

\* What leaves the Alpaca method when its trade_client call `call` fails:
\* market_order and close_order turn the failure into BrokerError;
\* set_take_profit's submit_order and wait_for_order_status's get_order_by_id
\* are not inside a try.
AlpacaRaises(call) ==
    IF call \in {"market_order.submit_order", "close_order.cancel_order_by_id",
                 "close_order.close_position"}
    THEN "BrokerError"
    ELSE "Exception"

\* TradingClient.cancel_order_by_id can succeed only on an order still working.
Cancelable(o) == o.status \in {"pending", "new"}

(***************************************************************************)
(* core/portfolio.py                                                       *)
(***************************************************************************)
\* open_trades / close_trades: `except BrokerError: raise PortfolioError`
\* around the market_order / close_order call (in_try); set_take_profit is
\* called outside the try.
PortfolioRaises(in_try, e) ==
    IF in_try /\ e = "BrokerError" THEN "PortfolioError" ELSE e

\* The answers broker.get_order_by_id can give PortfolioManager.update for a
\* row: it raises, or returns the order filled, or not filled.
UpdateAnswers(ords, row) ==
    LET tp == row.take_profit_order_id
    IN  IF tp \notin DOMAIN ords THEN {"raise"}
        ELSE {"raise"}
             \cup (IF "filled" \in Progress(ords[tp]) THEN {"filled"} ELSE {})
             \cup (IF ords[tp].status # "filled" THEN {"unfilled"} ELSE {})

\* An update that deletes a trade whose take-profit order is filled.
ReconcileDeleting(ts, rows, ans, i) ==
    IF \E k \in DOMAIN rows : ans[k] = "filled"
    THEN SubSeq(ts, 1, Len(ts) - 1)
    ELSE ts

RECURSIVE ReconcileUntilError(_, _, _, _)
\* An update whose loop ends at the first broker error.
ReconcileUntilError(ts, rows, ans, i) ==
    IF i > Len(rows) \/ ans[i] = "raise" THEN ts
    ELSE ReconcileUntilError(
            IF ans[i] = "filled"
            THEN update_trade(ts, rows[i].id,
                    take_profit_updates(rows[i].take_profit_order_id))
            ELSE ts,
            rows, ans, i + 1)

RECURSIVE Reconcile(_, _, _, _)
\* PortfolioManager.update's loop over the open rows from row i on: a row
\* whose take-profit order is filled is closed with reason TakeProfit.
Reconcile(ts, rows, ans, i) ==
    IF i > Len(rows) THEN ts
    ELSE Reconcile(
            IF ans[i] = "filled"
            THEN update_trade(ts, rows[i].id,
                    take_profit_updates(rows[i].take_profit_order_id))
            ELSE ts,
            rows, ans, i + 1)

\* The broker's orders after those queries.
Queried(ords, rows, ans) ==
    [o \in DOMAIN ords |->
        IF \E i \in DOMAIN rows :
              rows[i].take_profit_order_id = o /\ ans[i] = "filled"
        THEN [ords[o] EXCEPT !.status = "filled"]
        ELSE ords[o]]

(***************************************************************************)
(* core/strategy.py: Strategy.loop, one activation per job j               *)
(***************************************************************************)
\* Mutant of MaxReached: the cap compared with > instead of >=.
MaxReachedAbove(exits, positions) ==
    exits = <<>> /\ Len(positions) > max_positions

\* line 49: no exit signal and the positions returned by update at the cap.
MaxReached(exits, positions) ==
    exits = <<>> /\ Len(positions) >= max_positions

\* lines 57 and 69: the loop's except clauses.
LoopCatches(e) == e = "PortfolioError"

InitStrategy ==
    /\ trades = <<>>
    /\ orders = <<>>
    /\ cur = None
    /\ cycles = 0
    /\ pc = [j \in Jobs |-> "idle"]
    /\ open_positions = [j \in Jobs |-> <<>>]
    /\ exit_signals = [j \in Jobs |-> <<>>]
    /\ buy_signals = [j \in Jobs |-> <<>>]
    /\ idx = [j \in Jobs |-> 0]
    /\ order = [j \in Jobs |-> None]
    /\ polls = [j \in Jobs |-> 0]
    /\ trade_id = [j \in Jobs |-> None]
    /\ entry_checked = [j \in Jobs |-> FALSE]
    /\ submitted = [j \in Jobs |-> [exit |-> 0, entry |-> 0]]
    /\ failure = [j \in Jobs |-> ""]
    /\ outcome = [j \in Jobs |-> "never"]

\* The cycle of job j may take the event loop: no other cycle holds it.
Runs(j, at) == pc[j] = at /\ cur \in {None, j}

\* The cycle of job j resumes from a sleep: the event loop is free.
Resumes(j, at) == pc[j] = at /\ cur = None

\* `return` (or the end) of Strategy.loop.
Return(j, how) ==
    /\ pc' = [pc EXCEPT ![j] = "idle"]
    /\ outcome' = [outcome EXCEPT ![j] = how]
    /\ cur' = None

\* Mutant of Fails: the except clause of lines 57-59 logs and does not
\* return, so the loop goes on to line 61.
FailsAndGoesOn(j, call, in_try, caught_as) ==
    LET e == PortfolioRaises(in_try, AlpacaRaises(call))
    IN  /\ failure' = [failure EXCEPT ![j] = call]
        /\ IF LoopCatches(e) /\ caught_as = "close_failed"
           THEN /\ pc' = [pc EXCEPT ![j] = "check_entry"]
                /\ cur' = j
                /\ UNCHANGED outcome
           ELSE Return(j, IF LoopCatches(e) THEN caught_as ELSE "raised")

\* A failing broker call: the exception travels through the Alpaca method and
\* the PortfolioManager method to the loop's except clause, which returns;
\* what the clause does not catch leaves Strategy.loop.
Fails(j, call, in_try, caught_as) ==
    LET e == PortfolioRaises(in_try, AlpacaRaises(call))
    IN  /\ failure' = [failure EXCEPT ![j] = call]
        /\ Return(j, IF LoopCatches(e) THEN caught_as ELSE "raised")

\* The scheduler fires job j (or Strategy.run calls loop): APScheduler runs at
\* most one instance of a job (max_instances = 1), and one job per trigger.
Start(j) ==
    /\ pc[j] = "idle"
    /\ cur = None
    /\ cycles < MaxCycles
    /\ cycles' = cycles + 1
    /\ pc' = [pc EXCEPT ![j] = "update"]
    /\ open_positions' = [open_positions EXCEPT ![j] = <<>>]
    /\ exit_signals' = [exit_signals EXCEPT ![j] = <<>>]
    /\ buy_signals' = [buy_signals EXCEPT ![j] = <<>>]
    /\ idx' = [idx EXCEPT ![j] = 0]
    /\ order' = [order EXCEPT ![j] = None]
    /\ polls' = [polls EXCEPT ![j] = 0]
    /\ trade_id' = [trade_id EXCEPT ![j] = None]
    /\ entry_checked' = [entry_checked EXCEPT ![j] = FALSE]
    /\ submitted' = [submitted EXCEPT ![j] = [exit |-> 0, entry |-> 0]]
    /\ failure' = [failure EXCEPT ![j] = ""]
    /\ outcome' = [outcome EXCEPT ![j] = "running"]
    /\ UNCHANGED <<dbVars, cur>>
    /\ UNCHANGED notStratVars

\* line 45: open_positions = await self.pm.update().  The rows are read before
\* the reconciliation and returned as read.
Update(j) ==
    /\ Runs(j, "update")
    /\ LET rows == get_open_trades(trades)
       IN  \E ans \in [DOMAIN rows -> {"raise", "filled", "unfilled"}] :
              /\ \A i \in DOMAIN rows : ans[i] \in UpdateAnswers(orders, rows[i])
              /\ trades' = Reconcile(trades, rows, ans, 1)
              /\ orders' = Queried(orders, rows, ans)
              /\ open_positions' = [open_positions EXCEPT ![j] = rows]
    /\ pc' = [pc EXCEPT ![j] = "check_exit"]
    /\ cur' = j
    /\ UNCHANGED <<cycles, exit_signals, buy_signals, idx, order, polls, trade_id,
                   entry_checked, submitted, failure, outcome>>
    /\ UNCHANGED notStratVars

\* line 47: exit_signals = await self.check_exit_conditions(open_positions).
\* The predicate is the strategy's: it selects any of the rows it is given.
CheckExit(j) ==
    /\ Runs(j, "check_exit")
    /\ \E sig \in SubSeqs(open_positions[j]) :
          exit_signals' = [exit_signals EXCEPT ![j] = sig]
    /\ pc' = [pc EXCEPT ![j] = "decide"]
    /\ cur' = j
    /\ UNCHANGED <<dbVars, cycles, open_positions, buy_signals, idx, order, polls,
                   trade_id, entry_checked, submitted, failure, outcome>>
    /\ UNCHANGED notStratVars

\* lines 49-53.
Decide(j) ==
    /\ Runs(j, "decide")
    /\ IF MaxReached(exit_signals[j], open_positions[j])
       THEN /\ Return(j, "max_reached")
            /\ UNCHANGED idx
       ELSE /\ pc' = [pc EXCEPT ![j] =
                        IF exit_signals[j] # <<>> THEN "close_order" ELSE "check_entry"]
            /\ idx' = [idx EXCEPT ![j] = 1]
            /\ cur' = j
            /\ UNCHANGED outcome
    /\ UNCHANGED <<dbVars, cycles, open_positions, exit_signals, buy_signals, order,
                   polls, trade_id, entry_checked, submitted, failure>>
    /\ UNCHANGED notStratVars

\* close_trades' loop moves to the next signal, or returns to line 61.
NextClose(j) ==
    IF idx[j] < Len(exit_signals[j])
    THEN /\ idx' = [idx EXCEPT ![j] = idx[j] + 1]
         /\ pc' = [pc EXCEPT ![j] = "close_order"]
    ELSE /\ idx' = [idx EXCEPT ![j] = 1]
         /\ pc' = [pc EXCEPT ![j] = "check_entry"]

\* lines 55-59 -> close_trades -> Alpaca.close_order, up to its first sleep:
\* cancel the take-profit order, close the position, start the wait.
CloseOrder(j) ==
    /\ Runs(j, "close_order")
    /\ LET row == exit_signals[j][idx[j]]
           tp == row.take_profit_order_id
           canceled == IF tp \in DOMAIN orders
                       THEN [orders EXCEPT ![tp].status = "canceled"]
                       ELSE orders
       IN  \/ /\ tp # None
              /\ Fails(j, "close_order.cancel_order_by_id", TRUE, "close_failed")
              /\ UNCHANGED <<orders, idx, order, polls, submitted>>
           \/ /\ tp \in DOMAIN orders => Cancelable(orders[tp])
              /\ Fails(j, "close_order.close_position", TRUE, "close_failed")
              /\ orders' = canceled
              /\ UNCHANGED <<idx, order, polls, submitted>>
           \/ /\ tp \in DOMAIN orders => Cancelable(orders[tp])
              /\ submitted' = [submitted EXCEPT ![j].exit = @ + 1]
              /\ \E s \in InitialStatus("close") :
                    /\ orders' = Append(canceled, [kind |-> "close", status |-> s])
                    /\ IF WaitEntered(s, "filled")
                       THEN /\ pc' = [pc EXCEPT ![j] = "close_wait"]
                            /\ order' = [order EXCEPT ![j] = Len(orders) + 1]
                            /\ polls' = [polls EXCEPT ![j] = 0]
                            /\ cur' = None
                            /\ UNCHANGED idx
                       ELSE /\ NextClose(j)
                            /\ cur' = j
                            /\ UNCHANGED <<order, polls>>
              /\ UNCHANGED <<failure, outcome>>
    /\ UNCHANGED <<trades, cycles, open_positions, exit_signals, buy_signals, trade_id,
                   entry_checked>>
    /\ UNCHANGED notStratVars

\* One round of wait_for_order_status inside close_order: sleep, query; on
\* FILLED close_order returns the order and close_trades writes the exit.
CloseWait(j) ==
    /\ Resumes(j, "close_wait")
    /\ \/ /\ Fails(j, "wait_for_order_status.get_order_by_id", TRUE, "close_failed")
          /\ UNCHANGED <<dbVars, idx, polls>>
       \/ \E s \in Progress(orders[order[j]]) :
             /\ orders' = [orders EXCEPT ![order[j]].status = s]
             /\ IF s = "filled"
                THEN /\ trades' = update_trade_exit(trades, exit_signals[j][idx[j]].id,
                                                    order[j], order[j], order[j],
                                                    "Signal", order[j])
                     /\ NextClose(j)
                     /\ cur' = j
                     /\ UNCHANGED polls
                ELSE /\ polls' = [polls EXCEPT ![j] = Queries(polls[j])]
                     /\ cur' = None
                     /\ UNCHANGED <<trades, idx, pc>>
             /\ UNCHANGED <<failure, outcome>>
    /\ UNCHANGED <<cycles, open_positions, exit_signals, buy_signals, order, trade_id,
                   entry_checked, submitted>>
    /\ UNCHANGED notStratVars

\* lines 61-65: buy_signals = await self.check_entry_conditions(open_positions).
\* The predicate is the strategy's: it selects any symbols of the universe.
CheckEntry(j) ==
    /\ Runs(j, "check_entry")
    /\ entry_checked' = [entry_checked EXCEPT ![j] = TRUE]
    /\ \E sig \in SubSeqs(Universe) :
          /\ buy_signals' = [buy_signals EXCEPT ![j] = sig]
          /\ IF sig = <<>>
             THEN Return(j, "no_entry")
             ELSE /\ pc' = [pc EXCEPT ![j] = "market_order"]
                  /\ cur' = j
                  /\ UNCHANGED outcome
    /\ idx' = [idx EXCEPT ![j] = 1]
    /\ UNCHANGED <<dbVars, cycles, open_positions, exit_signals, order, polls,
                   trade_id, submitted, failure>>
    /\ UNCHANGED notStratVars

\* open_trades' loop moves to the next signal, or line 72 is reached.
NextOpen(j) ==
    IF idx[j] < Len(buy_signals[j])
    THEN /\ idx' = [idx EXCEPT ![j] = idx[j] + 1]
         /\ pc' = [pc EXCEPT ![j] = "market_order"]
         /\ cur' = j
         /\ UNCHANGED outcome
    ELSE /\ Return(j, "finished")
         /\ UNCHANGED idx

\* lines 67-71 -> open_trades -> Alpaca.market_order, up to its first sleep.
MarketOrder(j) ==
    /\ Runs(j, "market_order")
    /\ \/ /\ Fails(j, "market_order.submit_order", TRUE, "open_failed")
          /\ UNCHANGED <<orders, idx, order, polls, submitted>>
       \/ \E s \in InitialStatus("market") :
             /\ orders' = Append(orders, [kind |-> "market", status |-> s])
             /\ submitted' = [submitted EXCEPT ![j].entry = @ + 1]
             /\ IF WaitEntered(s, "filled")
                THEN /\ pc' = [pc EXCEPT ![j] = "market_wait"]
                     /\ order' = [order EXCEPT ![j] = Len(orders) + 1]
                     /\ polls' = [polls EXCEPT ![j] = 0]
                     /\ cur' = None
                     /\ UNCHANGED <<idx, outcome>>
                ELSE /\ NextOpen(j)
                     /\ UNCHANGED <<order, polls>>
             /\ UNCHANGED failure
    /\ UNCHANGED <<trades, cycles, open_positions, exit_signals, buy_signals, trade_id,
                   entry_checked>>
    /\ UNCHANGED notStratVars

\* One round of wait_for_order_status inside market_order.
MarketWait(j) ==
    /\ Resumes(j, "market_wait")
    /\ \/ /\ Fails(j, "wait_for_order_status.get_order_by_id", TRUE, "open_failed")
          /\ UNCHANGED <<orders, polls>>
       \/ \E s \in Progress(orders[order[j]]) :
             /\ orders' = [orders EXCEPT ![order[j]].status = s]
             /\ IF s = "filled"
                THEN /\ pc' = [pc EXCEPT ![j] = "take_profit"]
                     /\ cur' = j
                     /\ UNCHANGED polls
                ELSE /\ polls' = [polls EXCEPT ![j] = Queries(polls[j])]
                     /\ cur' = None
                     /\ UNCHANGED pc
             /\ UNCHANGED <<failure, outcome>>
    /\ UNCHANGED <<trades, cycles, open_positions, exit_signals, buy_signals, idx,
                   order, trade_id, entry_checked, submitted>>
    /\ UNCHANGED notStratVars

\* open_trades after a filled market order: add_trade, then
\* Alpaca.set_take_profit up to its first sleep.  When the limit order is
\* returned already NEW the wait returns False and the else branch formats
\* the undefined name `symbol`: a NameError leaves the loop.
TakeProfit(j) ==
    /\ Runs(j, "take_profit")
    /\ trades' = Append(trades, NewTrade(buy_signals[j][idx[j]], order[j], "open"))
    /\ trade_id' = [trade_id EXCEPT ![j] = Len(trades) + 1]
    /\ \/ /\ Fails(j, "set_take_profit.submit_order", FALSE, "open_failed")
          /\ UNCHANGED <<orders, order, polls, submitted>>
       \/ \E s \in InitialStatus("limit") :
             /\ orders' = Append(orders, [kind |-> "limit", status |-> s])
             /\ submitted' = [submitted EXCEPT ![j].entry = @ + 1]
             /\ IF WaitEntered(s, "new")
                THEN /\ pc' = [pc EXCEPT ![j] = "take_profit_wait"]
                     /\ order' = [order EXCEPT ![j] = Len(orders) + 1]
                     /\ polls' = [polls EXCEPT ![j] = 0]
                     /\ cur' = None
                     /\ UNCHANGED <<failure, outcome>>
                ELSE /\ failure' = [failure EXCEPT ![j] = "NameError"]
                     /\ Return(j, "raised")
                     /\ UNCHANGED <<order, polls>>
    /\ UNCHANGED <<cycles, open_positions, exit_signals, buy_signals, idx,
                   entry_checked>>
    /\ UNCHANGED notStratVars

\* One round of wait_for_order_status inside set_take_profit; on NEW
\* open_trades stores the take-profit order's id.
TakeProfitWait(j) ==
    /\ Resumes(j, "take_profit_wait")
    /\ \/ /\ Fails(j, "wait_for_order_status.get_order_by_id", FALSE, "open_failed")
          /\ UNCHANGED <<dbVars, idx, polls>>
       \/ \E s \in Progress(orders[order[j]]) :
             /\ orders' = [orders EXCEPT ![order[j]].status = s]
             /\ IF s = "new"
                THEN /\ trades' = update_trade(trades, trade_id[j],
                                       [take_profit_order_id |-> order[j]])
                     /\ NextOpen(j)
                     /\ UNCHANGED polls
                ELSE /\ polls' = [polls EXCEPT ![j] = Queries(polls[j])]
                     /\ cur' = None
                     /\ UNCHANGED <<trades, idx, pc, outcome>>
             /\ UNCHANGED failure
    /\ UNCHANGED <<cycles, open_positions, exit_signals, buy_signals, order, trade_id,
                   entry_checked, submitted>>
    /\ UNCHANGED notStratVars

Step(j) ==
    \/ Start(j)
    \/ Update(j)
    \/ CheckExit(j)
    \/ Decide(j)
    \/ CloseOrder(j)
    \/ CloseWait(j)
    \/ CheckEntry(j)
    \/ MarketOrder(j)
    \/ MarketWait(j)
    \/ TakeProfit(j)
    \/ TakeProfitWait(j)

vars == <<stratVars, filtVars, scrVars, mmVars, apiVars, restVars>>

(***************************************************************************)
(* filters/indicators.py                                                   *)
(***************************************************************************)
Kinds == {"TechnicalIndicator", "IndicatorFilter", "Earnings"}

\* An indicator value: a float, possibly not-a-number.
NaN == [nan |-> TRUE, v |-> 0]
Num(n) == [nan |-> FALSE, v |-> n]
Values == (0 - MaxValue)..MaxValue

\* A price series, by what the indicator's calculation makes of it: a number,
\* not-a-number (history shorter than the period), or an exception.
Series ==
    {[is |-> "value", v |-> n] : n \in Values}
        \cup {[is |-> "nan", v |-> 0], [is |-> "error", v |-> 0]}

\* The market-data bundle's table for the indicator's price field: a column
\* for each symbol the provider delivered.
Bundles == UNION {[avail -> Series] : avail \in SUBSET Symbols}

\* The __name__ the IndicatorComparison methods give their lambdas.
Operators == {">", "<", ">=", "<=", "="}

\* IndicatorComparison.gt / lt / gte / lte / eq: the lambdas.
gt(x, y) == x > y
lt(x, y) == x < y
\* Mutant of gte: the lambda of gt copied.
gte_as_gt(x, y) == x > y
gte(x, y) == x >= y
lte(x, y) == x <= y
eq(x, y) == x = y

\* self.comparison_func(value, self.value), by the lambda the method stored.
Compare(op, x, y) ==
    CASE op = ">" -> gt(x, y)
      [] op = "<" -> lt(x, y)
      [] op = ">=" -> gte(x, y)
      [] op = "<=" -> lte(x, y)
      [] op = "=" -> eq(x, y)

\* pd.isna.
isna(x) == x.nan

\* calculate_indicator: the last element of the computed series.
calculate_indicator(series) ==
    IF series.is = "value" THEN Num(series.v) ELSE NaN

\* Mutant of TechnicalIndicatorApply: the try of lines 123-127 around the
\* whole loop, so that an error spoils the symbols that follow.
TechnicalIndicatorApplySpoiled(univ, md) ==
    [s \in Range(univ) |->
        IF \E i \in DOMAIN univ :
              /\ univ[i] \in DOMAIN md
              /\ md[univ[i]].is = "error"
              /\ \E k \in i..Len(univ) : univ[k] = s
        THEN NaN
        ELSE IF s \in DOMAIN md THEN calculate_indicator(md[s]) ELSE NaN]

\* TechnicalIndicator.apply after the initialized check: a value per symbol of
\* the universe, not-a-number when the calculation raises or no data is bound.
TechnicalIndicatorApply(univ, md) ==
    [s \in Range(univ) |->
        IF s \in DOMAIN md
        THEN IF md[s].is = "error" THEN NaN ELSE calculate_indicator(md[s])
        ELSE NaN]

\* IndicatorFilter.apply after the initialized check, on the indicator's values.
IndicatorFilterApply(vals, op, threshold) ==
    [s \in DOMAIN vals |->
        IF isna(vals[s]) THEN FALSE ELSE Compare(op, vals[s].v, threshold)]

\* TechnicalIndicator.initialize's loop binds the universe's symbols in order
\* and raises KeyError at the first one the bundle has no column for.
Bound(bundle) ==
    {Universe[i] : i \in {k \in DOMAIN Universe :
                            \A m \in 1..k : Universe[m] \in DOMAIN bundle}}

Completes(bundle) == Symbols \subseteq DOMAIN bundle

\* self.market_data after TechnicalIndicator.initialize, completed or not.
Rebound(md, bundle) ==
    [s \in DOMAIN md \cup Bound(bundle) |->
        IF s \in Bound(bundle) THEN bundle[s] ELSE md[s]]

\* Mutant of InitializedAfter: the flag set before the binding loop.
InitializedBefore(was, completes) == TRUE

\* self.initialized after initialize: set as its last statement.
InitializedAfter(was, completes) == was \/ completes

(***************************************************************************)
(* filters/earnings.py, data/earnings_calendar.py                          *)
(***************************************************************************)
\* strftime("%Y-%m-%d") of a clock time, and strptime of a day.
Day(t) == t \div TicksPerDay
Midnight(d) == d * TicksPerDay

\* timedelta(days = n).
Days(n) == n * TicksPerDay

\* Symbols the calendar lists besides the universe's.
Listed == Symbols \cup {"TSLA"}

\* The answers finnhub.earnings_calendar(_from = today, to = period) can give.
Calendars(today, to) ==
    UNION {[1..n -> [symbol : Listed, date : Day(today)..Day(to)]] :
             n \in 0..MaxCalendar}

\* EarningsCalendar.get_multiple_earnings_dates: each entry of a requested
\* symbol replaces the symbol's list by a one-element list.
get_multiple_earnings_dates(symbols, cal) ==
    [s \in {cal[i].symbol : i \in DOMAIN cal} \cap Range(symbols) |->
        LET last == CHOOSE i \in DOMAIN cal :
                       /\ cal[i].symbol = s
                       /\ \A k \in DOMAIN cal : cal[k].symbol = s => k <= i
        IN  <<Midnight(cal[last].date)>>]

\* Earnings.apply after the initialized check.
EarningsApply(univ, dts, today) ==
    [s \in {u \in Range(univ) :
              \/ u \notin DOMAIN dts
              \/ \E i \in DOMAIN dts[u] : dts[u][i] - today <= Days(lookahead)} |->
        s \notin DOMAIN dts]

(***************************************************************************)
(* The filter objects.                                                     *)
(***************************************************************************)
NoResult == [status |-> "none", value |-> <<>>, at |-> 0]
FilterError == [status |-> "FilterError", value |-> <<>>, at |-> 0]
Returned(v, t) == [status |-> "returned", value |-> v, at |-> t]

\* After construction: nothing initialized, nothing applied.
Constructed ==
    /\ initialized = [k \in Kinds |-> FALSE]
    /\ universe = [k \in Kinds |-> <<>>]
    /\ market_data = <<>>
    /\ dates = <<>>
    /\ calendar = <<>>
    /\ period = now + Days(lookahead) + Days(1)
    /\ completed = {}
    /\ result = [k \in Kinds |-> NoResult]

\* No filter object in the run.
NoFilters ==
    /\ kind = "none"
    /\ comparison_func = ">"
    /\ value = 0
    /\ now = 0
    /\ Constructed

\* One filter object, of any class: an indicator; an indicator wrapped by
\* gt / lt / gte / lte / eq with a threshold; an earnings filter.
InitFilters ==
    /\ kind \in Kinds
    /\ IF kind = "IndicatorFilter"
       THEN comparison_func \in Operators /\ value \in Values
       ELSE comparison_func = ">" /\ value = 0
    /\ IF kind = "Earnings" THEN now \in 0..(TicksPerDay - 1) ELSE now = 0
    /\ Constructed

\* TechnicalIndicator.initialize(universe, market_data).
InitializeIndicator ==
    /\ kind \in {"TechnicalIndicator", "IndicatorFilter"}
    /\ \E bundle \in Bundles :
          /\ market_data' = Rebound(market_data, bundle)
          /\ initialized' = [initialized EXCEPT !["TechnicalIndicator"] =
                                InitializedAfter(@, Completes(bundle))]
          /\ completed' = IF Completes(bundle)
                          THEN completed \cup {"TechnicalIndicator"}
                          ELSE completed
    /\ universe' = [universe EXCEPT !["TechnicalIndicator"] = Universe]
    /\ result' = [result EXCEPT !["TechnicalIndicator"] = NoResult,
                                !["IndicatorFilter"] = NoResult]
    /\ UNCHANGED <<kind, comparison_func, value, dates, period, calendar, now>>
    /\ UNCHANGED notFiltVars

\* IndicatorFilter.initialize: the indicator's initialize, then the flag.
InitializeFilter ==
    /\ kind = "IndicatorFilter"
    /\ \E bundle \in Bundles :
          /\ market_data' = Rebound(market_data, bundle)
          /\ initialized' =
                [initialized EXCEPT
                    !["TechnicalIndicator"] = InitializedAfter(@, Completes(bundle)),
                    !["IndicatorFilter"] = InitializedAfter(@, Completes(bundle))]
          /\ completed' = IF Completes(bundle)
                          THEN completed \cup {"TechnicalIndicator", "IndicatorFilter"}
                          ELSE completed
    /\ universe' = [universe EXCEPT !["TechnicalIndicator"] = Universe]
    /\ result' = [result EXCEPT !["TechnicalIndicator"] = NoResult,
                                !["IndicatorFilter"] = NoResult]
    /\ UNCHANGED <<kind, comparison_func, value, dates, period, calendar, now>>
    /\ UNCHANGED notFiltVars

\* TechnicalIndicator.apply().
ApplyIndicator ==
    /\ kind \in {"TechnicalIndicator", "IndicatorFilter"}
    /\ result' = [result EXCEPT !["TechnicalIndicator"] =
                    IF ~initialized["TechnicalIndicator"]
                    THEN FilterError
                    ELSE Returned(TechnicalIndicatorApply(
                                    universe["TechnicalIndicator"], market_data), now)]
    /\ UNCHANGED <<kind, initialized, universe, market_data, comparison_func, value,
                   dates, period, calendar, now, completed>>
    /\ UNCHANGED notFiltVars

\* IndicatorFilter.apply(): the indicator's apply, then the comparison.
ApplyFilter ==
    /\ kind = "IndicatorFilter"
    /\ result' = [result EXCEPT !["IndicatorFilter"] =
                    IF ~initialized["IndicatorFilter"]
                       \/ ~initialized["TechnicalIndicator"]
                    THEN FilterError
                    ELSE Returned(IndicatorFilterApply(
                                    TechnicalIndicatorApply(
                                        universe["TechnicalIndicator"], market_data),
                                    comparison_func, value), now)]
    /\ UNCHANGED <<kind, initialized, universe, market_data, comparison_func, value,
                   dates, period, calendar, now, completed>>
    /\ UNCHANGED notFiltVars

\* Earnings.initialize(universe): the calendar request may fail.
InitializeEarnings ==
    /\ kind = "Earnings"
    /\ universe' = [universe EXCEPT !["Earnings"] = Universe]
    /\ result' = [result EXCEPT !["Earnings"] = NoResult]
    /\ \/ UNCHANGED <<dates, calendar, initialized, completed>>
       \/ \E cal \in Calendars(now, period) :
             /\ calendar' = cal
             /\ dates' = get_multiple_earnings_dates(Universe, cal)
             /\ initialized' = [initialized EXCEPT !["Earnings"] = TRUE]
             /\ completed' = completed \cup {"Earnings"}
    /\ UNCHANGED <<kind, market_data, comparison_func, value, period, now>>
    /\ UNCHANGED notFiltVars

\* Earnings.apply().
ApplyEarnings ==
    /\ kind = "Earnings"
    /\ result' = [result EXCEPT !["Earnings"] =
                    IF ~initialized["Earnings"]
                    THEN FilterError
                    ELSE Returned(EarningsApply(universe["Earnings"], dates, now), now)]
    /\ UNCHANGED <<kind, initialized, universe, market_data, comparison_func, value,
                   dates, period, calendar, now, completed>>
    /\ UNCHANGED notFiltVars

\* Time passes between the calls on the earnings filter.
Tick ==
    /\ kind = "Earnings"
    /\ now < MaxNow
    /\ now' = now + 1
    /\ UNCHANGED <<kind, initialized, universe, market_data, comparison_func, value,
                   dates, period, calendar, completed, result>>
    /\ UNCHANGED notFiltVars

(***************************************************************************)
(* core/screener.py: the candidate table and the registered filters.       *)
(***************************************************************************)
\* The filter objects a caller may register: an IndicatorFilter
\* (Roc(120).gt(0)) and two Earnings filters of different lookahead; name is
\* the object's derived name (self.name).
FilterPool ==
    <<[class |-> "IndicatorFilter", name |-> "ROC120>0"],
      [class |-> "Earnings", name |-> "Earnings"],
      [class |-> "Earnings", name |-> "Earnings"]>>

\* The names a use-list may hold: the filters' and the symbol table's
\* columns (a filter's column is missing until run() has written it).
ColumnNames == <<"ROC120>0", "Earnings", "Company">>

\* The use-lists: names in the order above.
UseLists == SubSeqs(ColumnNames)

\* What a filter's apply() may return: a dict of booleans by symbol, which
\* need not have every symbol of the table.
FilterResults == UNION {[d -> BOOLEAN] : d \in SUBSET Symbols}

\* self.candidates None.
NoTable == [index |-> <<>>, cols |-> <<>>]

\* A symbol table reduced to its index, as dfs[0][[]] would give.
SymbolTableIndexOnly(fetched) ==
    [index |-> fetched, cols |-> [c \in {} |-> [s \in Range(fetched) |-> "text"]]]

\* data/symbols.py get_symbols: a table indexed by Symbol with the one column
\* Company, never empty.
SymbolTable(fetched) ==
    [index |-> fetched, cols |-> [c \in {"Company"} |-> [s \in Range(fetched) |-> "text"]]]

Fetchable == SubSeqs(Universe) \ {<<>>}

\* A cell of the table, as it prints: a boolean, an undefined value (NaN), or
\* text.
Cell(b) == IF b THEN "True" ELSE "False"

\* pandas, DataFrame.__setitem__ with a dict: the dict becomes a Series and
\* is aligned to the table's index; a row without key gets NaN, a key without
\* row is dropped.
reindex(res, index) ==
    [s \in Range(index) |-> IF s \in DOMAIN res THEN Cell(res[s]) ELSE "NaN"]

\* Mutant of setitem: a column that exists is not overwritten, the values go
\* to a new column.
setitem_duplicating(table, name, res) ==
    LET col == reindex(res, table.index)
        to == IF name \in DOMAIN table.cols THEN "duplicate" ELSE name
    IN  [table EXCEPT !.cols =
            [c \in DOMAIN table.cols \cup {to} |-> IF c = to THEN col ELSE table.cols[c]]]

\* Mutant of setitem: the rows the filter fails are dropped from the table.
setitem_dropping(table, name, res) ==
    LET keep == SelectSeq(table.index, LAMBDA s : s \in DOMAIN res /\ res[s])
        col == reindex(res, keep)
    IN  [index |-> keep,
         cols |-> [c \in DOMAIN table.cols \cup {name} |->
                     IF c = name THEN col
                     ELSE [s \in Range(keep) |-> table.cols[c][s]]]]

\* self.candidates[filter.name] = <the dict apply() returned>.
setitem(table, name, res) ==
    LET col == reindex(res, table.index)
    IN  [table EXCEPT !.cols =
            [c \in DOMAIN table.cols \cup {name} |->
                IF c = name THEN col ELSE table.cols[c]]]

\* Mutant of EqTrue: an undefined value counts as True.
EqTrueOrNaN(cell) == cell \in {"True", "NaN"}

\* pandas, `column == True`, by cell.
EqTrue(cell) == cell = "True"

\* Screener.apply_filters, lines 52-55: the rows of the mask
\* True & (candidates[n1] == True) & ...; the names all are columns.
Masked(table, names) ==
    SelectSeq(table.index,
              LAMBDA s : \A i \in DOMAIN names : EqTrue(table.cols[names[i]][s]))

NoView == [status |-> "none", use |-> <<>>, rows |-> <<>>]

\* Screener.apply_filters with self.use = names: KeyError at the first name
\* that is no column.
apply_filters(table, names) ==
    IF names = <<>>
    THEN [status |-> "returned", use |-> names, rows |-> table.index]
    ELSE IF \E i \in DOMAIN names : names[i] \notin DOMAIN table.cols
    THEN [status |-> "KeyError", use |-> names, rows |-> <<>>]
    ELSE [status |-> "returned", use |-> names, rows |-> Masked(table, names)]

\* Screener.__init__.
NoScreener ==
    /\ scr_initialized = FALSE
    /\ scr_symbols = <<>>
    /\ filters = <<>>
    /\ ready = {}
    /\ candidates = NoTable
    /\ run_pos = 0
    /\ ran = FALSE
    /\ last_results = <<>>
    /\ repeated = FALSE
    /\ before = NoTable
    /\ run_error = 0
    /\ filtered = NoView

\* The run() calls so far no longer follow each other.
NoRuns ==
    /\ run_pos' = 0
    /\ ran' = FALSE
    /\ last_results' = <<>>
    /\ repeated' = FALSE
    /\ before' = NoTable

\* A filter object that takes every apply() as initialized.
UninitializedNever(f) == FALSE

\* filter.apply() raises FilterError: the object's initialize() has not
\* returned.
Uninitialized(f) == f \notin ready

\* Screener.add_filter(filter), with a filter object not yet registered.
AddFilter ==
    /\ run_pos = 0
    /\ Len(filters) < MaxFilters
    /\ \E f \in DOMAIN FilterPool \ Range(filters) : filters' = Append(filters, f)
    /\ NoRuns
    /\ run_error' = 0
    /\ filtered' = NoView
    /\ UNCHANGED <<scr_initialized, scr_symbols, ready, candidates>>
    /\ UNCHANGED notScrVars

\* Screener.initialize(): get_symbols (stop = 0: it raises), the copy into
\* candidates, the market data (stop = 1: it raises), each filter's
\* initialize in turn (stop = k + 1: that of filter k raises), the flag.
InitializeScreener ==
    /\ run_pos = 0
    /\ \E stop \in 0..(Len(filters) + 2), fetched \in Fetchable :
          IF stop = 0
          THEN UNCHANGED <<scr_symbols, candidates, ready, scr_initialized>>
          ELSE /\ scr_symbols' = fetched
               /\ candidates' = SymbolTable(fetched)
               /\ ready' = ready \cup {filters[k] : k \in 1..(stop - 2)}
               /\ scr_initialized' = (scr_initialized \/ stop = Len(filters) + 2)
    /\ NoRuns
    /\ run_error' = 0
    /\ filtered' = NoView
    /\ UNCHANGED filters
    /\ UNCHANGED notScrVars

\* Screener.run(), one turn of the loop of lines 60-67 (the first included):
\* the filter's apply() is awaited and its result written to the column of
\* the filter's name; a FilterError ends the run.  No other call on the
\* screener runs in between.  Before initialize() there is no table, and
\* the filters registered are uninitialized.
Run ==
    LET i == IF run_pos = 0 THEN 1 ELSE run_pos
        same == IF run_pos = 0 THEN ran ELSE repeated
        start == IF run_pos = 0 THEN candidates ELSE before
        Ends(rep) ==
            /\ run_pos' = 0
            /\ ran' = TRUE
            /\ repeated' = rep
            /\ before' = IF rep THEN start ELSE NoTable
    IN  /\ candidates = NoTable
           => (IF filters = <<>> THEN TRUE ELSE Uninitialized(filters[i]))
        /\ IF filters = <<>>
           THEN /\ Ends(same)
                /\ run_error' = 0
                /\ UNCHANGED <<candidates, last_results>>
           ELSE IF Uninitialized(filters[i])
           THEN /\ NoRuns
                /\ run_error' = i
                /\ UNCHANGED candidates
           ELSE \E res \in FilterResults :
                   LET rep == same /\ i <= Len(last_results) /\ last_results[i] = res
                   IN  /\ candidates' = setitem(candidates, FilterPool[filters[i]].name, res)
                       /\ run_error' = 0
                       /\ last_results' = IF i <= Len(last_results)
                                          THEN [last_results EXCEPT ![i] = res]
                                          ELSE Append(last_results, res)
                       /\ IF i = Len(filters)
                          THEN Ends(rep)
                          ELSE /\ run_pos' = i + 1
                               /\ repeated' = rep
                               /\ before' = IF rep THEN start ELSE NoTable
                               /\ UNCHANGED ran
        /\ filtered' = NoView
        /\ UNCHANGED <<scr_initialized, scr_symbols, filters, ready>>
        /\ UNCHANGED notScrVars

\* self.use = names; Screener.apply_filters().
ApplyFilters ==
    /\ run_pos = 0
    /\ candidates # NoTable
    /\ \E names \in UseLists : filtered' = apply_filters(candidates, names)
    /\ UNCHANGED <<scr_initialized, scr_symbols, filters, ready, candidates, run_pos,
                   ran, last_results, repeated, before, run_error>>
    /\ UNCHANGED notScrVars

(***************************************************************************)
(* core/money_management.py, over the interpreter's floats.                *)
(*                                                                         *)
(* A float is <<m, e>>, the number m * 2^e, with a significand m of at     *)
(* most Precision binary digits; its exponent is not bounded.  Every       *)
(* operation gives the float nearest to the exact result, ties to the even *)
(* significand.                                                            *)
(***************************************************************************)
RECURSIVE Pow2(_)
Pow2(k) == IF k = 0 THEN 1 ELSE 2 * Pow2(k - 1)

Abs(m) == IF m < 0 THEN -m ELSE m
Sgn(m) == IF m < 0 THEN -1 ELSE 1

RECURSIVE Round(_, _, _)
\* The float nearest to (n / d) * 2^e, for n >= 0 and d > 0.
Round(n, d, e) ==
    IF n = 0 THEN <<0, 0>>
    ELSE IF n >= Pow2(Precision) * d THEN Round(n, 2 * d, e + 1)
    ELSE IF n < Pow2(Precision - 1) * d THEN Round(2 * n, d, e - 1)
    ELSE LET q == n \div d
             r == n % d
         IN  <<IF 2 * r < d \/ (2 * r = d /\ q % 2 = 0) THEN q ELSE q + 1, e>>

\* float(account_info.equity)
float(equity) == Round(equity, 1, 0)

\* x * y
mul(x, y) ==
    LET r == Round(Abs(x[1] * y[1]), 1, x[2] + y[2])
    IN  <<Sgn(x[1] * y[1]) * r[1], r[2]>>

\* x / y, for y other than zero.
truediv(x, y) ==
    LET r == Round(Abs(x[1]), Abs(y[1]), x[2] - y[2])
    IN  <<Sgn(x[1]) * Sgn(y[1]) * r[1], r[2]>>

\* int(x): the fraction is cut off.
int(x) ==
    IF x[2] >= 0 THEN x[1] * Pow2(x[2])
    ELSE Sgn(x[1]) * (Abs(x[1]) \div Pow2(-x[2]))

\* The percentages a MoneyManagement can be built with, and the closes a
\* latest bar can carry: zero and a negative price among them.
Pcts == {<<m, -Precision>> : m \in 0..Pow2(Precision)}
Prices == {<<m, -1>> : m \in -2..MaxPrice}

NoQty == [status |-> "none", value |-> 0]

\* MoneyManagement.get_entry_qty, line 29.
entry_qty(nav, pct_nav, pct_pos, close) ==
    IF close[1] = 0
    THEN [status |-> "ZeroDivisionError", value |-> 0]
    ELSE [status |-> "returned",
          value |-> int(truediv(mul(mul(nav, pct_nav), pct_pos), close))]

\* MoneyManagement(broker), with its default percentages' nearest halves.
NoMoney ==
    /\ pct_per_position = <<1, -1>>
    /\ pct_net_asset_value = <<1, -1>>
    /\ net_asset_value = <<>>
    /\ quote = <<>>
    /\ qty = NoQty

\* MoneyManagement(broker, pct_per_position=..., pct_net_asset_value=...)
InitMoney ==
    /\ pct_per_position \in Pcts
    /\ pct_net_asset_value \in Pcts
    /\ net_asset_value = <<>>
    /\ quote = <<>>
    /\ qty = NoQty

\* MoneyManagement.update_account_info (initialize() is this call): the
\* broker answers with the equity, or raises.
UpdateAccountInfo ==
    /\ \/ \E equity \in 0..MaxEquity : net_asset_value' = float(equity)
       \/ UNCHANGED net_asset_value
    /\ quote' = <<>>
    /\ qty' = NoQty
    /\ UNCHANGED <<pct_per_position, pct_net_asset_value>>
    /\ UNCHANGED notMmVars

\* MoneyManagement.get_entry_qty(symbol): the account is fetched first when
\* net_asset_value is None, then the latest bar; either call may raise.
GetEntryQty ==
    /\ \E equity \in 0..MaxEquity, close \in Prices, fails \in {"", "account", "bar"} :
          LET fetch == net_asset_value = <<>>
              nav == IF fetch THEN float(equity) ELSE net_asset_value
          IN  IF fetch /\ fails = "account"
              THEN /\ qty' = [status |-> "APIError", value |-> 0]
                   /\ quote' = <<>>
                   /\ UNCHANGED net_asset_value
              ELSE /\ net_asset_value' = nav
                   /\ IF fails = "bar"
                      THEN /\ qty' = [status |-> "APIError", value |-> 0]
                           /\ quote' = <<>>
                      ELSE /\ quote' = close
                           /\ qty' = entry_qty(nav, pct_net_asset_value,
                                               pct_per_position, close)
    /\ UNCHANGED <<pct_per_position, pct_net_asset_value>>
    /\ UNCHANGED notMmVars

(***************************************************************************)
(* The trade API: Database.add_trade, update_trade_exit, get_trade_by_id   *)
(* and update_trade, called directly or through the PortfolioManager       *)
(* methods of the same names, over rows with every column the API sets.    *)
(***************************************************************************)
Layers == {"Database", "PortfolioManager"}

\* The row Database.add_trade inserts, with the columns of the Trade table
\* (created_at and updated_at left out).
Trade(symbol, filled_at, filled_qty, filled_price, side, entry_order_id, status) ==
    [symbol |-> symbol, status |-> status, filled_at |-> filled_at,
     filled_qty |-> filled_qty, filled_price |-> filled_price, side |-> side,
     entry_order_id |-> entry_order_id, take_profit |-> None, stop_loss |-> None,
     take_profit_order_id |-> None, stop_loss_order_id |-> None,
     exit_at |-> None, exit_qty |-> None, exit_price |-> None,
     exit_reason |-> "", exit_order_id |-> None]

\* Arguments of update_trade_exit.
ExitArgs ==
    [exit_at : {2}, exit_qty : {1, 2}, exit_price : {3},
     exit_reason : {"TakeProfit", "manual"}, exit_order_id : {7}]

\* Dictionaries handed to update_trade: every set of these fields, allowed
\* ones (status, exit_reason) and others.
UpdateValue ==
    [status |-> "cancelled", exit_reason |-> "manual", symbol |-> "TSLA",
     filled_qty |-> 5, id |-> 9]

UpdateDicts == {[f \in F |-> UpdateValue[f]] : F \in SUBSET DOMAIN UpdateValue}

\* What add_trade can return: None, the new row's id, or a coroutine object
\* whose body has not run.
AddResult(layer, what, id, symbol) ==
    [layer |-> layer, kind |-> what, id |-> id, symbol |-> symbol]

NoReturn == AddResult("", "none", None, "")
NoExit == [status |-> "none", ret |-> FALSE, error |-> FALSE,
           args |-> exit_updates(None, None, None, "", None)]
NoRow == Trade("", None, None, None, "", None, "")
NoGot == [status |-> "none", error |-> FALSE, found |-> FALSE, row |-> NoRow]
NoUpdate == [status |-> "none", ret |-> FALSE, updates |-> <<>>, before |-> <<>>]

NoApi ==
    /\ added = NoReturn
    /\ exited = NoExit
    /\ got = NoGot
    /\ updated = NoUpdate

\* The body of Database.add_trade (lines 100-128): the row is inserted and
\* its id returned, or the engine fails and None is returned.
InsertTrade(layer, symbol, fails) ==
    IF fails
    THEN /\ added' = AddResult(layer, "None", None, "")
         /\ UNCHANGED trades
    ELSE /\ trades' = Append(trades, Trade(symbol, 1, 1, 3, "buy", 6, "open"))
         /\ added' = AddResult(layer, "id", Len(trades) + 1, "")

\* add_trade(...) of either layer.  Database.add_trade is a coroutine
\* function, awaited by its caller.  PortfolioManager.add_trade is a plain
\* function that calls it without await (portfolio.py 159): it returns the
\* coroutine object, and nothing is inserted.
AddTrade ==
    /\ Len(trades) < MaxRows
    /\ \E layer \in Layers, symbol \in Symbols, fails \in BOOLEAN :
          IF layer = "Database"
          THEN InsertTrade(layer, symbol, fails)
          ELSE /\ ~fails
               /\ added' = AddResult(layer, "coroutine", None, symbol)
               /\ UNCHANGED trades
    /\ exited' = NoExit
    /\ got' = NoGot
    /\ updated' = NoUpdate
    /\ UNCHANGED notApiVars

\* The caller awaits what PortfolioManager.add_trade returned (as
\* portfolio.py 529 does): the body of Database.add_trade runs now.
AwaitAdded ==
    /\ added.kind = "coroutine"
    /\ \E fails \in BOOLEAN : InsertTrade(added.layer, added.symbol, fails)
    /\ exited' = NoExit
    /\ got' = NoGot
    /\ updated' = NoUpdate
    /\ UNCHANGED notApiVars

\* update_trade_exit(trade_id, ...) of the layer of the add_trade, with what
\* add_trade returned as trade_id.  A coroutine object matches no row id:
\* the query fails or finds nothing, and False is returned.
UpdateTradeExit ==
    /\ added.kind \in {"id", "coroutine"}
    /\ exited = NoExit
    /\ \E a \in ExitArgs, fails \in BOOLEAN :
          LET updates == exit_updates(a.exit_at, a.exit_qty, a.exit_price,
                                      a.exit_reason, a.exit_order_id)
              runs == added.kind = "id" /\ ~fails
          IN  /\ fails => added.kind = "id"
              /\ trades' = IF runs THEN update_trade(trades, added.id, updates)
                           ELSE trades
              /\ exited' = [status |-> "called",
                            ret |-> runs /\ UpdateTradeOk(trades, added.id, updates),
                            error |-> fails, args |-> updates]
    /\ got' = NoGot
    /\ updated' = NoUpdate
    /\ UNCHANGED added
    /\ UNCHANGED notApiVars

\* get_trade_by_id(trade_id) of the same layer, with what add_trade returned.
GetTradeById ==
    /\ added.kind \in {"id", "coroutine"}
    /\ \E fails \in BOOLEAN :
          LET finds == added.kind = "id" /\ ~fails /\ added.id \in DOMAIN trades
          IN  /\ fails => added.kind = "id"
              /\ got' = [status |-> "called", error |-> fails, found |-> finds,
                         row |-> IF finds THEN trades[added.id] ELSE NoRow]
    /\ updated' = NoUpdate
    /\ UNCHANGED <<trades, added, exited>>
    /\ UNCHANGED notApiVars

\* update_trade(trade_id, updates) of either layer (PortfolioManager's
\* delegates, lines 305-332), on any id; the engine may fail.
UpdateTrade ==
    /\ \E id \in 1..(MaxRows + 1), updates \in UpdateDicts, fails \in BOOLEAN :
          /\ trades' = IF fails THEN trades ELSE update_trade(trades, id, updates)
          /\ updated' = [status |-> "called",
                         ret |-> ~fails /\ UpdateTradeOk(trades, id, updates),
                         updates |-> updates, before |-> trades]
    /\ exited' = NoExit
    /\ got' = NoGot
    /\ UNCHANGED added
    /\ UNCHANGED notApiVars

(***************************************************************************)
(* A Database object: connect() and the operations on the trades table,    *)
(* called in any order, before and after connect().                        *)
(***************************************************************************)
\* What an operation returned: None, False or an empty collection (the
\* values the guard and the except clauses return), or a result: the ids of
\* the rows inserted, found or changed, and the counts of the statistics.
DbReturn(what, ids, counts) == [kind |-> what, ids |-> ids, counts |-> counts]

DbCall(op, id, ret) == [op |-> op, id |-> id, ret |-> ret]

\* Database.__init__: no engine, no session factory.
NoDatabase ==
    /\ SessionLocal = FALSE
    /\ connected = FALSE
    /\ db_call = DbCall("", None, DbReturn("None", {}, <<>>))


\* Database.connect: makedirs or create_engine raises (line 54 or 60) and
\* SessionLocal stays as it was; or the session factory is created (line 67)
\* and create_all raises (line 70); or create_all succeeds.  Every exception
\* is caught and False returned.
Connect ==
    /\ \E at \in {"create_engine", "create_all", "return"} :
          /\ SessionLocal' = (SessionLocal \/ at # "create_engine")
          /\ connected' = (connected \/ at = "return")
    /\ UNCHANGED <<trades, db_call>>
    /\ UNCHANGED notConVars

\* The guard `if not self.SessionLocal` lets the operation through and the
\* engine executes its statements.
Executes(fails) == SessionLocal /\ ~fails

\* Database.add_trade: the row is inserted and its id returned; None when
\* not connected or on an SQLAlchemyError.
DbAddTrade ==
    /\ Len(trades) < MaxRows
    /\ \E symbol \in Symbols, fails \in BOOLEAN :
          IF Executes(fails)
          THEN /\ trades' = Append(trades, Trade(symbol, 1, 1, 3, "buy", 6, "open"))
               /\ db_call' = DbCall("add_trade", None,
                                    DbReturn("id", {Len(trades) + 1}, <<>>))
          ELSE /\ db_call' = DbCall("add_trade", None, DbReturn("None", {}, <<>>))
               /\ UNCHANGED trades
    /\ UNCHANGED <<orders, SessionLocal, connected>>
    /\ UNCHANGED notConVars

\* The dictionaries update_trade gets from its wrappers (lines 130-147,
\* 371-381, 409-411), and one with a field outside the allow-list.
WrapperUpdates ==
    [update_trade_status |-> [status |-> "cancelled"],
     update_take_profit_order_id |-> [take_profit_order_id |-> 7],
     update_stop_loss_order_id |-> [stop_loss_order_id |-> 8],
     update_stop_loss_price |-> [stop_loss |-> 2],
     update_trade_exit |-> exit_updates(2, 1, 3, "manual", 7),
     update_trade |-> [symbol |-> "TSLA"]]

\* Database.update_trade, called directly or through a wrapper.
DbUpdateTrade ==
    /\ \E op \in DOMAIN WrapperUpdates, id \in 1..(MaxRows + 1), fails \in BOOLEAN :
          LET ok == Executes(fails) /\ UpdateTradeOk(trades, id, WrapperUpdates[op])
          IN  /\ trades' = IF ok THEN update_trade(trades, id, WrapperUpdates[op])
                           ELSE trades
              /\ db_call' = DbCall(op, id,
                                   IF ok THEN DbReturn("True", {id}, <<>>)
                                   ELSE DbReturn("False", {}, <<>>))
    /\ UNCHANGED <<orders, SessionLocal, connected>>
    /\ UNCHANGED notConVars

\* Database.update_take_profit_price, which has a body of its own.
DbUpdateTakeProfitPrice ==
    /\ \E id \in 1..(MaxRows + 1), fails \in BOOLEAN :
          LET ok == Executes(fails) /\ id \in Live(trades)
          IN  /\ trades' = IF ok THEN [trades EXCEPT ![id].take_profit = 4]
                           ELSE trades
              /\ db_call' = DbCall("update_take_profit_price", id,
                                   IF ok THEN DbReturn("True", {id}, <<>>)
                                   ELSE DbReturn("False", {}, <<>>))
    /\ UNCHANGED <<orders, SessionLocal, connected>>
    /\ UNCHANGED notConVars

\* Database.get_trade_by_id: the row as a dictionary, or None.
DbGetTradeById ==
    /\ \E id \in 1..(MaxRows + 1), fails \in BOOLEAN :
          db_call' = DbCall("get_trade_by_id", id,
                            IF Executes(fails) /\ id \in Live(trades)
                            THEN DbReturn("row", {id}, <<>>)
                            ELSE DbReturn("None", {}, <<>>))
    /\ UNCHANGED <<trades, orders, SessionLocal, connected>>
    /\ UNCHANGED notConVars

\* The rows get_open_trades, get_closed_trades and get_trades_by_symbol
\* select.
Selected(ts, op) ==
    {i \in Live(ts) :
        CASE op = "get_open_trades" -> ts[i].status = "open"
          [] op = "get_closed_trades" -> ts[i].status = "closed"
          [] OTHER -> ts[i].symbol = Universe[1]}

\* Database.get_open_trades, get_closed_trades, get_trades_by_symbol: the
\* rows selected; an empty frame or list when there is none, when not
\* connected and on an SQLAlchemyError.
DbGetTrades ==
    /\ \E op \in {"get_open_trades", "get_closed_trades", "get_trades_by_symbol"},
          fails \in BOOLEAN :
          db_call' = DbCall(op, None,
                            IF Executes(fails) /\ Selected(trades, op) # {}
                            THEN DbReturn("rows", Selected(trades, op), <<>>)
                            ELSE DbReturn("empty", {}, <<>>))
    /\ UNCHANGED <<trades, orders, SessionLocal, connected>>
    /\ UNCHANGED notConVars

\* Database.get_trade_statistics: the counts of all, open and closed trades;
\* an empty dictionary when not connected and on an SQLAlchemyError.
DbGetTradeStatistics ==
    /\ \E fails \in BOOLEAN :
          db_call' = DbCall("get_trade_statistics", None,
                            IF Executes(fails)
                            THEN DbReturn("statistics", {},
                                    <<Cardinality(Live(trades)),
                                      Cardinality(Selected(trades, "get_open_trades")),
                                      Cardinality(Selected(trades, "get_closed_trades"))>>)
                            ELSE DbReturn("empty", {}, <<>>))
    /\ UNCHANGED <<trades, orders, SessionLocal, connected>>
    /\ UNCHANGED notConVars

RECURSIVE Trimmed(_)
\* The table without the marks at its end: SQLite gives a new row the
\* largest id of the table plus one.
Trimmed(ts) ==
    IF ts # <<>> /\ ts[Len(ts)].status = "deleted"
    THEN Trimmed(SubSeq(ts, 1, Len(ts) - 1))
    ELSE ts

\* Database.delete_trade: the row is deleted; False when there is none, when
\* not connected and on an SQLAlchemyError.
DbDeleteTrade ==
    /\ \E id \in 1..(MaxRows + 1), fails \in BOOLEAN :
          LET ok == Executes(fails) /\ id \in Live(trades)
          IN  /\ trades' = IF ok
                           THEN Trimmed([trades EXCEPT ![id] = [status |-> "deleted"]])
                           ELSE trades
              /\ db_call' = DbCall("delete_trade", id,
                                   IF ok THEN DbReturn("True", {id}, <<>>)
                                   ELSE DbReturn("False", {}, <<>>))
    /\ UNCHANGED <<orders, SessionLocal, connected>>
    /\ UNCHANGED notConVars

(***************************************************************************)
(* main.py: the strategies of the directory, initialized and run one after *)
(* the other by main().                                                    *)
(***************************************************************************)
Strategies == 1..NumStrategies

\* Lines 27-30: the files of the directory, in the order glob gives them,
\* each loaded as a strategy object with or without a scheduler.
InitMain ==
    /\ strategy_classes \in [Strategies -> [scheduler : BOOLEAN]]
    /\ strategy = 0
    /\ main_pc = "initialize"
    /\ progress = [i \in Strategies |-> "found"]
    /\ fired = [i \in Strategies |-> 0]
    /\ slept = 0

\* `for strategy in strategy_classes` takes the next strategy, or main()
\* returns.
NextStrategy ==
    IF strategy < NumStrategies
    THEN /\ strategy' = strategy + 1
         /\ main_pc' = "initialize"
    ELSE /\ main_pc' = "done"
         /\ UNCHANGED strategy

\* The loop is entered.
MainStart ==
    /\ strategy = 0
    /\ main_pc = "initialize"
    /\ NextStrategy
    /\ UNCHANGED <<strategy_classes, progress, fired, slept>>
    /\ UNCHANGED notMainVars

\* Line 34: await strategy.initialize().  What it raises leaves main().
MainInitialize ==
    /\ strategy \in Strategies
    /\ main_pc = "initialize"
    /\ \E raises \in BOOLEAN :
          IF raises
          THEN /\ main_pc' = "raised"
               /\ UNCHANGED progress
          ELSE /\ main_pc' = "run"
               /\ progress' = [progress EXCEPT ![strategy] = "initialized"]
    /\ UNCHANGED <<strategy_classes, strategy, fired, slept>>
    /\ UNCHANGED notMainVars

\* Line 35: await strategy.run().  Without a scheduler run() awaits loop()
\* and returns, or lets through what loop() raised; with a scheduler it
\* starts the scheduler and enters `while True: await asyncio.sleep(10)`.
MainRun ==
    /\ strategy \in Strategies
    /\ main_pc = "run"
    /\ IF strategy_classes[strategy].scheduler
       THEN /\ progress' = [progress EXCEPT ![strategy] = "scheduled"]
            /\ main_pc' = "sleep"
            /\ UNCHANGED strategy
       ELSE \E raises \in BOOLEAN :
               IF raises
               THEN /\ main_pc' = "raised"
                    /\ UNCHANGED <<strategy, progress>>
               ELSE /\ progress' = [progress EXCEPT ![strategy] = "finished"]
                    /\ NextStrategy
    /\ UNCHANGED <<strategy_classes, fired, slept>>
    /\ UNCHANGED notMainVars

\* strategy.py 77-78: a sleep of run()'s endless loop is over and the next
\* one begins.
MainSleep ==
    /\ main_pc = "sleep"
    /\ slept' = (slept + 1) % 2
    /\ UNCHANGED <<strategy_classes, strategy, main_pc, progress, fired>>
    /\ UNCHANGED notMainVars

\* A started scheduler fires a job: the strategy's loop runs.
SchedulerFires ==
    /\ \E i \in Strategies :
          /\ progress[i] = "scheduled"
          /\ fired[i] < MaxCycles
          /\ fired' = [fired EXCEPT ![i] = fired[i] + 1]
    /\ UNCHANGED <<strategy_classes, strategy, main_pc, progress, slept>>
    /\ UNCHANGED notMainVars

\* Nothing of main.py runs.
NoMain ==
    /\ strategy_classes = [i \in Strategies |-> [scheduler |-> FALSE]]
    /\ strategy = 0
    /\ main_pc = "done"
    /\ progress = [i \in Strategies |-> "found"]
    /\ fired = [i \in Strategies |-> 0]
    /\ slept = 0


(***************************************************************************)
(* data/market_data.py: a MarketDataManager and the calls made on it as    *)
(* time passes.                                                            *)
(***************************************************************************)
\* Line 24: the time-to-live, the unit of the clock.
cache_duration == 1

\* What data_cache holds and what get_multiple_symbols_data returns: the
\* empty dictionary, or the frame of histories the provider gave at time
\* `at` for `symbols` over `period`; a call may also raise.
Data(what, at, symbols, periods) ==
    [kind |-> what, at |-> at, symbols |-> symbols, period |-> periods]

EmptyDict == Data("dict", 0, {}, "")

\* MarketDataManager.__init__.
InitMarketData ==
    /\ provider \in {"yahoo", "other"}
    /\ data_cache = EmptyDict
    /\ cache_expiry = {}
    /\ clock = 0
    /\ fetches = 0
    /\ history = EmptyDict

\* No MarketDataManager is in use.
NoMarketData ==
    /\ provider = "yahoo"
    /\ data_cache = EmptyDict
    /\ cache_expiry = {}
    /\ clock = 0
    /\ fetches = 0
    /\ history = EmptyDict

NoRest == NoDatabase /\ NoMain /\ NoMarketData

\* MarketDataManager._is_cache_valid (lines 26-30).  No method calls it, nor
\* _cache_data, which alone fills cache_expiry.
is_cache_valid(cache_key) ==
    \E e \in cache_expiry : e.key = cache_key /\ clock < e.expiry

\* MarketDataManager.get_multiple_symbols_data (lines 49-63): with the Yahoo
\* provider the histories are fetched (the fetch may raise), stored as
\* data_cache and returned; with any other provider {} is returned.
GetMultipleSymbolsData ==
    /\ fetches < MaxFetches
    /\ \E symbols \in SUBSET Symbols \ {{}}, periods \in {"300d", "250d"},
          raises \in BOOLEAN :
          IF provider = "yahoo"
          THEN /\ fetches' = fetches + 1
               /\ IF raises
                  THEN /\ history' = Data("raised", clock, symbols, periods)
                       /\ UNCHANGED data_cache
                  ELSE /\ data_cache' = Data("frame", clock, symbols, periods)
                       /\ history' = data_cache'
          ELSE /\ ~raises
               /\ history' = EmptyDict
               /\ UNCHANGED <<data_cache, fetches>>
    /\ UNCHANGED <<provider, cache_expiry, clock>>
    /\ UNCHANGED notCacheVars

\* Time passes between the calls.
ClockTick ==
    /\ clock < MaxClock
    /\ clock' = clock + 1
    /\ UNCHANGED <<provider, data_cache, cache_expiry, fetches, history>>
    /\ UNCHANGED notCacheVars

(***************************************************************************)
(* The claims.                                                             *)
(***************************************************************************)
WaitPcs == {"close_wait", "market_wait", "take_profit_wait"}

\* The cycle of job j has passed line 49 (or ended there).
Decided(j) ==
    outcome[j] # "never" /\ pc[j] \notin {"update", "check_exit", "decide"}

OpenTrades == {t \in DOMAIN trades : trades[t].status = "open"}

\* C1: whenever check_exit_conditions returned no exit signal and update
\* returned at least max_positions open positions, the cycle has ended
\* without invoking check_entry_conditions and without submitting an order.
C1_MaxReachedSkipsEntry ==
    \A j \in Jobs :
        (/\ Decided(j)
         /\ exit_signals[j] = <<>>
         /\ Len(open_positions[j]) >= max_positions)
        => /\ pc[j] = "idle"
           /\ outcome[j] = "max_reached"
           /\ ~entry_checked[j]
           /\ submitted[j] = [exit |-> 0, entry |-> 0]

\* C1's case: a cycle that found the cap reached, with positions open.
C1_Witness ==
    \E j \in Jobs :
        /\ outcome[j] = "max_reached"
        /\ exit_signals[j] = <<>>
        /\ open_positions[j] # <<>>
        /\ Len(open_positions[j]) >= max_positions

\* C2: when closing an exit-signalled trade failed with a broker error (the
\* take-profit cancellation or the position close), the cycle has ended
\* without invoking check_entry_conditions and without an entry order.
C2_CloseFailureSkipsEntry ==
    \A j \in Jobs :
        failure[j] \in {"close_order.cancel_order_by_id", "close_order.close_position"}
        => /\ pc[j] = "idle"
           /\ outcome[j] = "close_failed"
           /\ ~entry_checked[j]
           /\ submitted[j].entry = 0

\* C2's case: the position close of an exit-signalled trade failed after its
\* take-profit order was canceled.
C2_Witness ==
    \E j \in Jobs :
        /\ failure[j] = "close_order.close_position"
        /\ outcome[j] = "close_failed"
        /\ exit_signals[j] # <<>>
        /\ \E o \in DOMAIN orders : orders[o].status = "canceled"

\* C3: the number of trade records with status open never exceeds
\* mm.max_positions.
C3_OpenTradesWithinCap == Cardinality(OpenTrades) <= max_positions

\* C4: whenever check_exit_conditions or check_entry_conditions is invoked,
\* every trade of the open_positions argument has status open in the
\* datastore.
C4_PredicatesSeeLivePositions ==
    \A j \in Jobs :
        pc[j] \in {"check_exit", "check_entry"}
        => \A i \in DOMAIN open_positions[j] :
              trades[open_positions[j][i].id].status = "open"

\* A cycle is in progress once its first statement has run.
InProgress(j) == pc[j] \notin {"idle", "update"}

\* C5: at most one Strategy.loop cycle is in progress at any time, also with
\* several triggers.
C5_SingleCycle == Cardinality({j \in Jobs : InProgress(j)}) <= 1

\* C6: wait_for_order_status returns after a bounded number of status
\* queries, also when the order never reaches the target status: every wait
\* that is resumed after each sleep comes to an end.
C6_BoundedPolling ==
    \A j \in Jobs : (pc[j] \in WaitPcs) ~> (pc[j] \notin WaitPcs)

\* C7: a failed submission, cancellation or close (cancelling the
\* take-profit order, closing the position, submitting the market order,
\* placing the take-profit order) ends the cycle with a normal return: it
\* never leaves Strategy.loop as an exception.
C7_BrokerFailuresCaught ==
    \A j \in Jobs :
        failure[j] \in {"close_order.cancel_order_by_id", "close_order.close_position",
                        "market_order.submit_order", "set_take_profit.submit_order"}
        => outcome[j] \in {"close_failed", "open_failed"}

\* C8: apply() on a filter object whose initialize() has not completed gives
\* FilterError and no result, for each class of filter.
C8_ApplyBeforeInitialize ==
    \A k \in Kinds :
        (k \notin completed /\ result[k].status # "none")
        => result[k] = FilterError

\* C8's case: initialize() was called and raised, then apply() was called.
C8_Witness ==
    \E k \in Kinds :
        /\ kind = k
        /\ k \notin completed
        /\ universe[IF k = "IndicatorFilter" THEN "TechnicalIndicator" ELSE k] # <<>>
        /\ result[k] = FilterError

\* C9: a comparison filter gives False for a symbol whose base indicator
\* value is not-a-number, and otherwise the operator applied to the value
\* and the threshold.
C9_ComparisonResult ==
    LET r == result["IndicatorFilter"]
        base == TechnicalIndicatorApply(universe["TechnicalIndicator"], market_data)
    IN  r.status = "returned"
        => \A s \in Symbols :
              /\ s \in DOMAIN r.value
              /\ r.value[s] =
                    IF base[s].nan THEN FALSE
                    ELSE CASE comparison_func = ">" -> base[s].v > value
                           [] comparison_func = "<" -> base[s].v < value
                           [] comparison_func = ">=" -> base[s].v >= value
                           [] comparison_func = "<=" -> base[s].v <= value
                           [] comparison_func = "=" -> base[s].v = value

\* C9's case: gte applied to a value equal to the threshold, beside a symbol
\* whose value is not-a-number.
C9_Witness ==
    LET r == result["IndicatorFilter"]
        base == TechnicalIndicatorApply(universe["TechnicalIndicator"], market_data)
    IN  /\ r.status = "returned"
        /\ comparison_func = ">="
        /\ \E s, t \in Symbols :
              /\ base[s].nan /\ r.value[s] = FALSE
              /\ ~base[t].nan /\ base[t].v = value /\ r.value[t] = TRUE

\* A day's earnings date lies in [now, now + lookahead] at clock time t.
InWindow(d, t) == t <= Midnight(d) /\ Midnight(d) <= t + Days(lookahead)

\* C10: Earnings.apply() gives True to every universe symbol absent from the
\* fetched calendar and False to every universe symbol with a fetched
\* earnings date inside [now, now + lookahead].
C10_EarningsResult ==
    LET r == result["Earnings"]
    IN  r.status = "returned"
        => \A s \in Range(universe["Earnings"]) :
              /\ (\A i \in DOMAIN calendar : calendar[i].symbol # s)
                 => (s \in DOMAIN r.value /\ r.value[s] = TRUE)
              /\ (\E i \in DOMAIN calendar :
                     calendar[i].symbol = s /\ InWindow(calendar[i].date, r.at))
                 => (s \in DOMAIN r.value /\ r.value[s] = FALSE)

\* C11: Earnings.apply() gives True to every universe symbol that has
\* calendar entries none of whose dates lies within lookahead days of the
\* time of the call.
C11_EarningsBeyondWindowPasses ==
    LET r == result["Earnings"]
    IN  r.status = "returned"
        => \A s \in Range(universe["Earnings"]) :
              (/\ \E i \in DOMAIN calendar : calendar[i].symbol = s
               /\ \A i \in DOMAIN calendar :
                     calendar[i].symbol = s
                     => Midnight(calendar[i].date) > r.at + Days(lookahead))
              => (s \in DOMAIN r.value /\ r.value[s] = TRUE)

\* The universe without the symbol s.
Without(univ, s) == SelectSeq(univ, LAMBDA x : x # s)

\* C12: when TechnicalIndicator.apply() meets a computation error for a
\* symbol, it returns all the same, with not-a-number for that symbol and,
\* for every other symbol, the value apply() gives on the universe without
\* the failing symbol.
C12_ErrorIsolated ==
    LET r == result["TechnicalIndicator"]
        univ == universe["TechnicalIndicator"]
    IN  initialized["TechnicalIndicator"]
        => \A s \in Range(univ) :
              (s \in DOMAIN market_data /\ market_data[s].is = "error")
              => /\ r.status \in {"none", "returned"}
                 /\ r.status = "returned"
                    => /\ DOMAIN r.value = Range(univ)
                       /\ isna(r.value[s])
                       /\ \A t \in Range(univ) \ {s} :
                             r.value[t] =
                                TechnicalIndicatorApply(Without(univ, s), market_data)[t]

\* C12's case: apply() returned with one symbol's calculation failing and
\* another symbol's giving a number.
C12_Witness ==
    LET r == result["TechnicalIndicator"]
    IN  /\ r.status = "returned"
        /\ \E s, t \in Symbols :
              /\ s \in DOMAIN market_data /\ market_data[s].is = "error"
              /\ isna(r.value[s])
              /\ t \in DOMAIN market_data /\ market_data[t].is = "value"
              /\ r.value[t] = Num(market_data[t].v)

\* The derived names of the registered filters.
FilterNames == {FilterPool[filters[i]].name : i \in DOMAIN filters}

\* initialize() has completed for the registered filters and a run() has
\* completed since.
ScreenerRan ==
    /\ scr_initialized
    /\ Range(filters) \subseteq ready
    /\ run_pos = 0
    /\ ran

C14_RunIdempotent ==
    (run_pos = 0 /\ repeated) => candidates = before

\* C14's case: a second run() over two filters has completed with the
\* results of the first, among them a False and a missing key.
C14_Witness ==
    /\ run_pos = 0
    /\ repeated
    /\ Len(filters) >= 2
    /\ {"ROC120>0", "Earnings"} \subseteq DOMAIN candidates.cols
    /\ \E c \in DOMAIN candidates.cols, s, t \in Range(candidates.index) :
          candidates.cols[c][s] = "False" /\ candidates.cols[c][t] = "NaN"

\* The filter whose turn it is in run().
Applied == FilterPool[filters[IF run_pos = 0 THEN 1 ELSE run_pos]].name

\* The rows of the candidate table are the fetched universe, in every column.
RowsAreUniverse ==
    candidates # NoTable
    => /\ candidates.index = scr_symbols
       /\ \A c \in DOMAIN candidates.cols :
             DOMAIN candidates.cols[c] = Range(scr_symbols)

\* The step is a turn of run() that applied a filter: a run() is under way
\* or has completed after it, and it is no apply_filters().
RunTurned == filtered' = NoView /\ (run_pos' # 0 \/ ran')

\* The step is an apply_filters(): it has given a view or a lookup error.
ApplyFiltersReturned == filtered' # NoView

\* C15: once initialize() has fetched the universe, the row index of the
\* candidate table is the fetched universe after every call; a turn of run()
\* changes no column but the one named after the filter it applies;
\* apply_filters() leaves the candidate table as it is.
C15_NeverRowFiltered ==
    [][/\ RowsAreUniverse'
       /\ RunTurned
          => /\ candidates'.index = candidates.index
             /\ \A c \in DOMAIN candidates.cols \cup DOMAIN candidates'.cols :
                   (filters = <<>> \/ c # Applied)
                   => /\ c \in DOMAIN candidates.cols
                      /\ c \in DOMAIN candidates'.cols
                      /\ candidates'.cols[c] = candidates.cols[c]
       /\ ApplyFiltersReturned => candidates' = candidates]_vars

\* C15's case: after a run() over two filters, apply_filters() has returned
\* fewer rows than the table, which still has the rows of the universe.
C15_Witness ==
    /\ ran
    /\ {"ROC120>0", "Earnings"} \subseteq DOMAIN candidates.cols
    /\ filtered.status = "returned"
    /\ Len(filtered.rows) < Len(candidates.index)
    /\ candidates.index = Universe

\* C16: apply_filters() with a non-empty use-list fails with a lookup error
\* when a name of the list is no column, and otherwise returns the rows, in
\* the table's order, that hold True in every column the list names: a row
\* with False or an undefined value in one of them is left out.
C16_ApplyFilters ==
    filtered.use # <<>>
    => IF \E i \in DOMAIN filtered.use : filtered.use[i] \notin DOMAIN candidates.cols
       THEN filtered.status = "KeyError"
       ELSE /\ filtered.status = "returned"
            /\ filtered.rows =
                  SelectSeq(candidates.index,
                            LAMBDA s : \A i \in DOMAIN filtered.use :
                                          candidates.cols[filtered.use[i]][s] = "True")

\* C16's case: two columns named, one row returned, the other left out for
\* an undefined value.
C16_Witness ==
    /\ filtered.status = "returned"
    /\ Len(filtered.use) = 2
    /\ \E s, t \in Range(candidates.index) :
          /\ filtered.rows = <<s>>
          /\ \E i \in DOMAIN filtered.use : candidates.cols[filtered.use[i]][t] = "NaN"
          /\ \A i \in DOMAIN filtered.use : candidates.cols[filtered.use[i]][t] # "False"

\* A lookup error happens too.
C16_WitnessKeyError ==
    /\ filtered.status = "KeyError"
    /\ \E i \in DOMAIN filtered.use : filtered.use[i] \in DOMAIN candidates.cols

\* floor(net_asset_value * pct_net_asset_value * pct_per_position / close),
\* on the numbers the floats stand for, for a positive close.
ExactQty ==
    LET n == net_asset_value[1] * pct_net_asset_value[1] * pct_per_position[1]
        e == net_asset_value[2] + pct_net_asset_value[2] + pct_per_position[2]
             - quote[2]
    IN  IF e >= 0 THEN (n * Pow2(e)) \div quote[1]
        ELSE n \div (quote[1] * Pow2(-e))

\* C17: with non-negative equity and percentages and a positive last close,
\* get_entry_qty returns floor(equity * pct_net_asset_value *
\* pct_per_position / close), and never a negative quantity.
C17_EntryQtyIsFloor ==
    (qty.status = "returned" /\ quote[1] > 0)
    => /\ qty.value = ExactQty
       /\ qty.value >= 0

\* C18: get_entry_qty fails whenever the last close is zero or negative: it
\* returns no quantity computed from such a price.
C18_NonPositivePriceFails ==
    (quote # <<>> /\ quote[1] <= 0) => qty.status # "returned"

\* C19: when add_trade returned a value, update_trade_exit was called with
\* it and then get_trade_by_id, and the engine failed in neither, the row
\* retrieved has status closed and the exit_at, exit_qty, exit_price,
\* exit_reason and exit_order_id passed: through the Database methods and
\* through the PortfolioManager methods.
C19_RoundTrip ==
    (/\ exited.status = "called" /\ ~exited.error
     /\ got.status = "called" /\ ~got.error)
    => /\ got.found
       /\ got.row.status = "closed"
       /\ \A f \in {"exit_at", "exit_qty", "exit_price", "exit_reason", "exit_order_id"} :
             got.row[f] = exited.args[f]

\* C20: an update_trade whose dictionary has a field outside the allow-list
\* (symbol, an entry fill field, id) returns False and leaves every row as
\* it was, the allowed fields of the same dictionary included.
C20_UpdateRejectsOtherFields ==
    (/\ updated.status = "called"
     /\ DOMAIN updated.updates \cap {"symbol", "filled_qty", "id"} # {})
    => /\ ~updated.ret
       /\ trades = updated.before

\* C20's case: allowed and other fields in one dictionary, for a row that
\* exists and is open: rejected, the status as it was.
C20_Witness ==
    /\ updated.status = "called"
    /\ {"status", "symbol"} \subseteq DOMAIN updated.updates
    /\ ~updated.ret
    /\ trades # <<>>
    /\ trades[1].status = "open"

\* The step is a run() ended by a FilterError.
RunFailed == run_error' # 0 /\ filtered' = NoView

\* C30: a run() fails with FilterError at the first filter, in registration
\* order, whose initialize() has not returned, also before
\* Screener.initialize(); the columns of the filters before it hold what
\* their apply() returned in that run, the failing turn writes nothing and
\* ends the run, and no turn of run() applies an uninitialized filter.
C30_RunFailsAtFirstUninitialized ==
    [][/\ RunFailed
          => /\ run_error' = (IF run_pos = 0 THEN 1 ELSE run_pos)
             /\ run_error' \in DOMAIN filters
             /\ filters[run_error'] \notin ready
             /\ \A i \in 1..(run_error' - 1) :
                   /\ filters[i] \in ready
                   /\ (\A k \in (i + 1)..(run_error' - 1) :
                          FilterPool[filters[k]].name # FilterPool[filters[i]].name)
                      => candidates.cols[FilterPool[filters[i]].name]
                            = reindex(last_results[i], candidates.index)
             /\ candidates' = candidates
             /\ run_pos' = 0
       /\ (RunTurned /\ filters # <<>>)
          => filters[IF run_pos = 0 THEN 1 ELSE run_pos] \in ready]_vars

\* C30's case: a filter registered after initialize() has ended a run() that
\* wrote the column of the filter before it.
C30_Witness ==
    /\ scr_initialized
    /\ run_error = 2
    /\ filters[1] \in ready
    /\ FilterPool[filters[1]].name \in DOMAIN candidates.cols

\* Every trade record's entry order is a market order the broker reports
\* as filled.
EntryFilled ==
    \A t \in DOMAIN trades :
        /\ trades[t].entry_order_id \in DOMAIN orders
        /\ orders[trades[t].entry_order_id].kind = "market"
        /\ orders[trades[t].entry_order_id].status = "filled"

\* C22: in the run loop a trade record exists only for an entry market
\* order the broker reported as filled, and no step removes a record: the
\* ids only grow, and a record keeps its symbol and its entry order.
C22_CreatedOnFillNeverDeleted ==
    [][/\ EntryFilled'
       /\ Len(trades') >= Len(trades)
       /\ \A t \in DOMAIN trades :
             /\ trades'[t].symbol = trades[t].symbol
             /\ trades'[t].entry_order_id = trades[t].entry_order_id]_vars

\* C22's case: a record closed by the loop is still there, beside a later
\* one.
C22_Witness ==
    /\ Len(trades) >= 2
    /\ trades[1].status = "closed"
    /\ trades[2].status = "open"

\* The step is the pm.update() of job j.
Updated(j) == pc[j] = "update" /\ pc'[j] = "check_exit"

FilledAtOnce(j, what) ==
    /\ submitted'[j][what] = submitted[j][what] + 1
    /\ Len(orders') = Len(orders) + 1
    /\ orders'[Len(orders')].kind = (IF what = "entry" THEN "market" ELSE "close")
    /\ orders'[Len(orders')].status = "filled"

\* C26: an order the broker fills at once is returned by market_order and by
\* close_order (the wait returns True): open_trades goes on to record the
\* trade and set the take-profit, close_trades writes the exit of the row.
C26_ImmediateFillReturnsOrder ==
    [][\A j \in Jobs :
          /\ (pc[j] = "market_order" /\ FilledAtOnce(j, "entry"))
             => pc'[j] = "take_profit"
          /\ (pc[j] = "close_order" /\ FilledAtOnce(j, "exit"))
             => trades'[exit_signals[j][idx[j]].id].status = "closed"]_vars

\* Job j is inside PortfolioManager.open_trades.
InOpenTrades(j) ==
    pc[j] \in {"market_order", "market_wait", "take_profit", "take_profit_wait"}

\* C27: once open_trades has returned or raised, every entry market order
\* the broker filled has a trade record with the order's id as
\* entry_order_id, an order filled at once included.
C27_FilledEntryRecorded ==
    (\A j \in Jobs : ~InOpenTrades(j))
    => \A o \in DOMAIN orders :
          (orders[o].kind = "market" /\ orders[o].status = "filled")
          => \E t \in DOMAIN trades : trades[t].entry_order_id = o

\* The exit fields of a trade row that hold a value.
ExitFieldsSet(row) ==
    {f \in {"exit_at", "exit_qty", "exit_price", "exit_order_id"} : row[f] # None}
    \cup (IF row.exit_reason # "" THEN {"exit_reason"} ELSE {})

\* C28: a trade is closed exactly when all five exit fields are set, and an
\* open trade has none of them set: status and exit fields are written in
\* one update.
C28_ClosedIffExitFieldsSet ==
    \A t \in DOMAIN trades :
       /\ trades[t].status \in {"open", "closed"}
       /\ trades[t].status = "closed"
          <=> ExitFieldsSet(trades[t]) = {"exit_at", "exit_qty", "exit_price",
                                          "exit_order_id", "exit_reason"}
       /\ trades[t].status = "open" => ExitFieldsSet(trades[t]) = {}

\* C28's case: one trade closed by close_trades, one closed by update(), and
\* one still open.
C28_Witness ==
    \E t, u, v \in DOMAIN trades :
       /\ trades[t].status = "closed" /\ trades[t].exit_reason = "Signal"
       /\ trades[u].status = "closed" /\ trades[u].exit_reason = "TakeProfit"
       /\ trades[v].status = "open"

\* The broker calls made inside the try blocks of market_order and
\* close_order.
BrokerErrorCalls ==
    {"market_order.submit_order", "close_order.cancel_order_by_id",
     "close_order.close_position"}

\* The step is a BrokerError in job j's open_trades or close_trades.
BrokerFailed(j) == failure[j] = "" /\ failure'[j] \in BrokerErrorCalls

\* C29: open_trades and close_trades take the signals in order and stop at
\* the first BrokerError, at signal k: the loop gets a PortfolioError, every
\* earlier signal has had its order submitted, no trade record changes in
\* the failing step, and no order is submitted afterwards in that cycle.
C29_StopsAtFirstBrokerError ==
    [][\A j \in Jobs :
          /\ BrokerFailed(j)
             => /\ trades' = trades
                /\ Len(orders') = Len(orders)
                /\ idx'[j] = idx[j]
                /\ submitted'[j] = submitted[j]
                /\ pc'[j] = "idle"
                /\ IF pc[j] = "close_order"
                   THEN /\ outcome'[j] = "close_failed"
                        /\ submitted[j].exit = idx[j] - 1
                   ELSE /\ outcome'[j] = "open_failed"
                        /\ submitted[j].entry >= idx[j] - 1
          /\ (failure[j] \in BrokerErrorCalls /\ failure'[j] = failure[j])
             => dbVars' = dbVars]_vars

\* C29's case: open_trades failed at its second signal, after the first
\* signal's trade was recorded.
C29_Witness ==
    \E j \in Jobs :
       /\ failure[j] = "market_order.submit_order"
       /\ outcome[j] = "open_failed"
       /\ idx[j] = 2
       /\ \E t \in DOMAIN trades : trades[t].symbol = buy_signals[j][1]

\* The step is a call of a Database operation (a call that repeats the last
\* one with the same result changes nothing).
DbCalled == db_call' # db_call

\* The operations that take a trade id.
TakesTradeId(op) ==
    op \in DOMAIN WrapperUpdates
           \cup {"update_take_profit_price", "get_trade_by_id", "delete_trade"}

\* C21: a Database operation called before connect() has returned True, or
\* with a trade id that no row has, returns None, False or an empty
\* collection and leaves the trades table as it is.
C21_SentinelAndNoChange ==
    [][(/\ DbCalled
        /\ \/ ~connected
           \/ TakesTradeId(db_call'.op) /\ db_call'.id \notin Live(trades))
       => /\ db_call'.ret.kind \in {"None", "False", "empty"}
          /\ trades' = trades]_vars

\* C23: unless an initialize() or a loop() raises, every strategy found is
\* eventually initialized and run: its loop has finished, or its scheduler
\* has been started.
C23_EveryStrategyRuns ==
    \/ <>(main_pc = "raised")
    \/ \A i \in Strategies : <>(progress[i] \in {"finished", "scheduled"})

\* The cached snapshot is younger than the time-to-live.
Unexpired == data_cache.kind = "frame" /\ clock < data_cache.at + cache_duration

\* C24: a get_multiple_symbols_data call made while the cached snapshot has
\* not expired (here: a call for the symbols and period of the snapshot) is
\* served from the cache: the provider is not asked again.
C24_ServedFromCache ==
    [][~(/\ Unexpired
         /\ history'.symbols = data_cache.symbols
         /\ history'.period = data_cache.period
         /\ fetches' # fetches)]_vars

(***************************************************************************)
(* Specifications.                                                         *)
(***************************************************************************)
Init == InitStrategy /\ NoFilters /\ NoScreener /\ NoMoney /\ NoApi /\ NoRest

\* One trigger, or Strategy.run without a scheduler: cycles follow each other.
Next == Step(1)

Spec == Init /\ [][Next]_vars

\* The event loop resumes a coroutine whose sleep is over, and runs a
\* coroutine that is ready: the steps of the cycle are weakly fair.  The
\* broker is not: an order may stay as it is.
SpecFair == Spec /\ WF_vars(Next)

\* A Scheduler with NumTriggers triggers: one job per trigger.
NextSched == \E j \in Jobs : Step(j)

SpecSched == Init /\ [][NextSched]_vars

\* A filter object and the calls a screener (or any caller) makes on it.
InitFilter == InitStrategy /\ InitFilters /\ NoScreener /\ NoMoney /\ NoApi /\ NoRest

NextFilter ==
    \/ InitializeIndicator
    \/ InitializeFilter
    \/ ApplyIndicator
    \/ ApplyFilter
    \/ InitializeEarnings
    \/ ApplyEarnings
    \/ Tick

SpecFilter == InitFilter /\ [][NextFilter]_vars

\* A Screener and the calls a strategy (or any caller) makes on it.
NextScreener ==
    \/ AddFilter
    \/ InitializeScreener
    \/ Run
    \/ ApplyFilters

SpecScreener == Init /\ [][NextScreener]_vars

\* MoneyManagement objects of every percentage, their calls in any order.
InitMoneyManagement == InitStrategy /\ NoFilters /\ NoScreener /\ InitMoney /\ NoApi /\ NoRest

NextMoney ==
    \/ UpdateAccountInfo
    \/ GetEntryQty

SpecMoney == InitMoneyManagement /\ [][NextMoney]_vars

\* The calls of the trade API, in any order.
NextApi ==
    \/ AddTrade
    \/ AwaitAdded
    \/ UpdateTradeExit
    \/ GetTradeById
    \/ UpdateTrade

SpecApi == Init /\ [][NextApi]_vars

\* A Database object and the calls made on it, in any order.
NextDatabase ==
    \/ Connect
    \/ DbAddTrade
    \/ DbUpdateTrade
    \/ DbUpdateTakeProfitPrice
    \/ DbGetTradeById
    \/ DbGetTrades
    \/ DbGetTradeStatistics
    \/ DbDeleteTrade

SpecDatabase == Init /\ [][NextDatabase]_vars

\* The program: main() over the strategies found.
NextMain ==
    \/ MainStart
    \/ MainInitialize
    \/ MainRun
    \/ MainSleep
    \/ SchedulerFires

InitProgram ==
    /\ InitStrategy /\ NoFilters /\ NoScreener /\ NoMoney /\ NoApi
    /\ NoDatabase /\ InitMain /\ NoMarketData

\* A MarketDataManager of either provider and the calls a screener (or any
\* caller) makes on it.
NextMarketData ==
    \/ GetMultipleSymbolsData
    \/ ClockTick

InitCache ==
    /\ InitStrategy /\ NoFilters /\ NoScreener /\ NoMoney /\ NoApi
    /\ NoDatabase /\ NoMain /\ InitMarketData

SpecMarketData == InitCache /\ [][NextMarketData]_vars

SpecMain == InitProgram /\ [][NextMain]_vars

\* The event loop runs main() whenever it is ready, and ends its sleeps.
SpecMainFair ==
    /\ SpecMain
    /\ WF_vars(MainStart)
    /\ WF_vars(MainInitialize)
    /\ WF_vars(MainRun)
    /\ WF_vars(MainSleep)

====
